---- MODULE Spec2Model ----
(***************************************************************************)
(* A model of cyro's log understanding pipeline: the live tailer           *)
(* (internal/tail), the stream parser (internal/parser), the Drain         *)
(* template extractor, the redactor and the compressor                     *)
(* (internal/preprocess).  Every component has its own specification       *)
(* (SpecTail, SpecDrain, ...); the variables of the other components stay  *)
(* at their idle values while one component runs.                          *)
(***************************************************************************)
EXTENDS Integers, Sequences, FiniteSets, TLC

VARIABLES
    \* ---- tailer (internal/tail/tail.go) ----
    fsPath,      \* the file (inode) now found at opts.FilePath, NoFile when none
    fsFiles,     \* inode -> content, a sequence of bytes
    fsMoved,     \* the inodes that were renamed away from opts.FilePath
    opts,        \* Options: Lines, Follow, FollowRotate, Pattern, LevelFilter
    tpc,         \* where Run is
    file,        \* t.file: the inode of the open handle, NoFile when nil
    offset,      \* t.offset
    startPos,    \* readInitialLines' startPos
    scanner,     \* the bufio.Scanner of readInitialLines and readNewContent
                 \* between two reads of the file: the file position, the
                 \* bytes read that are not yet a token, lineNum, and for
                 \* readInitialLines whether the first token is still to be
                 \* discarded and its entries; NoScanner outside a scan
    watched,     \* inodes the fsnotify watcher holds a watch on
    events,      \* t.watcher.Events: pending events, oldest first
    werrors,     \* t.watcher.Errors: number of pending errors
    cancelled,   \* ctx.Done() is closed
    output,      \* the entries OutputFunc received, in call order
    result,      \* what Run returned ("running" until it returns)
    hist         \* history: what the environment did during this Run, the file's
                 \* size when openFile returned, where Run was when cancelled

VARIABLES
    \* ---- Drain extractor (DrainExtractor) ----
    root,        \* the parse tree: node path -> the node's templateIDs
    templates,   \* d.templates: template number n (the ID "T_n") -> Template
    dhist        \* history: the number of calls and Resets, since the last
                 \* Reset each message's first ID and the last call, and the
                 \* IDs given to new templates since the extractor was made

VARIABLES
    \* ---- redactor (internal/preprocess/redact.go) ----
    redactor,    \* the Redactor: enabled, patterns (names, in order)
    hashMap,     \* r.hashMap: original value -> placeholder
    rhist        \* history: the substitutions made since the last Reset

VARIABLES
    \* ---- compressor (internal/preprocess/compress.go) ----
    compressor,  \* the Compressor: tokenLimit
    cin,         \* the arguments of the call
    cout,        \* the CompressedOutput it returned
    chist        \* history: whether the call was made, and the summaries
                 \* buildOutput was given

VARIABLES
    \* ---- preprocessor (Preprocessor.Process) ----
    pentries,    \* the entries every run processes
    pruns        \* the outputs of the runs so far, each on a fresh Preprocessor

VARIABLES
    \* ---- stream parser (Parser.ParseStream) ----
    psStream,    \* the bytes of the reader
    psFailAt,    \* the call of fn that returns an error, 0 when none does
    psNext,      \* the number of the next token of the scanner
    psLineNum,   \* lineNum
    psCalls,     \* the entries fn was called with, in call order
    psResult     \* what ParseStream returned ("running" until it returns)

VARIABLES
    \* ---- search's context emitter (cmd/search.go) ----
    emitter,     \* the contextEmitter: context, whether emitSeparator is set,
                 \* lastEmittedLine, afterRemaining, inContext, hasOutput, before
    emInput,     \* the entries the parser will hand to process, in order
    emNext,      \* the position in emInput of the next entry
    emOut        \* what emit and emitSeparator have written, in order

VARIABLES
    \* ---- analyzer (internal/analyzer/analyzer.go) ----
    anEntries,   \* the entries the call is given
    anCall,      \* the call made: its name and arguments ("none" before it)
    anResult     \* what the call returned

VARIABLES
    \* ---- goroutines sharing one Redactor ----
    rgo          \* goroutine -> where its Redact call is: pc, the text so
                 \* far, the pattern and word it is at, its substitutions

VARIABLES
    \* ---- goroutines sharing one DrainExtractor ----
    dgo          \* goroutine -> where its ExtractWithTemplate call is: pc, the
                 \* ID Extract returned and after how many Resets, the pattern
                 \* it then read and after how many Resets

VARIABLES
    \* ---- ChatStream (internal/llm): the producer goroutine and its caller ----
    stream,      \* the call: which provider, what the backend will produce,
                 \* where the producer goroutine is, the event it is sending,
                 \* the error the backend call returned
    eventChan,   \* the events in the channel's buffer, oldest first
    chanClosed,  \* close(eventChan) has run
    ctxErr,      \* ctx.Err(): "nil" until the context is cancelled or expires
    received,    \* what the caller has received, in order; Closed at the end
                 \* once a receive has found the channel closed
    stopped,     \* the caller has stopped receiving
    adapter      \* ollamaProviderAdapter.ChatStream's goroutine, between the
                 \* Ollama provider's channel and the caller: where it is, the
                 \* event it is forwarding, its own channel's buffer and
                 \* whether it has closed it; NoAdapter when the caller
                 \* ranges over the provider's channel itself

tailVars == <<fsPath, fsFiles, fsMoved, opts, tpc, file, offset, startPos, scanner, watched,
              events, werrors, cancelled, output, result, hist>>

drainVars == <<root, templates, dhist>>

redactVars == <<redactor, hashMap, rhist>>

compressVars == <<compressor, cin, cout, chist>>

processVars == <<pentries, pruns>>

parseVars == <<psStream, psFailAt, psNext, psLineNum, psCalls, psResult>>

emitVars == <<emitter, emInput, emNext, emOut>>

analyzeVars == <<anEntries, anCall, anResult>>

redactGoVars == <<rgo>>

drainGoVars == <<dgo>>

chatVars == <<stream, eventChan, chanClosed, ctxErr, received, stopped, adapter>>

\* the variables of the concurrent models
goVars == <<redactGoVars, drainGoVars, chatVars>>

vars == <<tailVars, drainVars, redactVars, compressVars, processVars, parseVars,
          emitVars, analyzeVars, goVars>>

\* what a component's actions leave alone: the other components' variables
nonTailVars == <<drainVars, redactVars, compressVars, processVars, parseVars,
    emitVars, analyzeVars, goVars>>

nonDrainVars == <<tailVars, redactVars, compressVars, processVars, parseVars,
    emitVars, analyzeVars, goVars>>

nonRedactVars == <<tailVars, drainVars, compressVars, processVars, parseVars,
    emitVars, analyzeVars, goVars>>

nonCompressVars == <<tailVars, drainVars, redactVars, processVars, parseVars,
    emitVars, analyzeVars, goVars>>

nonProcessVars == <<tailVars, drainVars, redactVars, compressVars, parseVars,
    emitVars, analyzeVars, goVars>>

nonParseVars == <<tailVars, drainVars, redactVars, compressVars, processVars,
    emitVars, analyzeVars, goVars>>

nonEmitVars == <<tailVars, drainVars, redactVars, compressVars, processVars,
    parseVars, analyzeVars, goVars>>

nonAnalyzeVars == <<tailVars, drainVars, redactVars, compressVars, processVars,
    parseVars, emitVars, goVars>>

nonRedactGoVars == <<tailVars, drainVars, compressVars, processVars, parseVars,
    emitVars, analyzeVars, drainGoVars, chatVars>>

nonDrainGoVars == <<tailVars, redactVars, compressVars, processVars, parseVars,
    emitVars, analyzeVars, redactGoVars, chatVars>>

nonChatVars == <<tailVars, drainVars, redactVars, compressVars, processVars,
    parseVars, emitVars, analyzeVars, redactGoVars, drainGoVars>>

----------------------------------------------------------------------------
(* Shared helpers: bytes, lines and bufio.ScanLines.                       *)

Range(s) == {s[i] : i \in 1..Len(s)}

Min(a, b) == IF a < b THEN a ELSE b

Max(a, b) == IF a > b THEN a ELSE b

LF == "\n"

CR == "\r"

\* unicode.IsSpace on the bytes the model uses
WhiteSpace == {" ", "\t", LF, CR}

\* strings.TrimSpace(line) == ""
IsBlank(line) == \A i \in 1..Len(line) : line[i] \in WhiteSpace

\* bufio.dropCR
dropCR(data) ==
    IF Len(data) > 0 /\ data[Len(data)] = CR
    THEN SubSeq(data, 1, Len(data) - 1)
    ELSE data

\* bytes.IndexByte(data[i..], '\n') as an absolute 1-based index, 0 when absent
NextLF(data, i) ==
    LET S == {j \in i..Len(data) : data[j] = LF}
    IN IF S = {} THEN 0 ELSE CHOOSE j \in S : \A k \in S : j <= k

\* bufio.Scanner with bufio.ScanLines over data[i..]: the tokens up to EOF,
\* each with the 0-based byte position at which it starts.
RECURSIVE ScanLines(_, _)
ScanLines(data, i) ==
    IF i > Len(data) THEN <<>>
    ELSE LET j == NextLF(data, i)
         IN IF j = 0
            THEN << [text |-> dropCR(SubSeq(data, i, Len(data))), pos |-> i - 1] >>
            ELSE << [text |-> dropCR(SubSeq(data, i, j - 1)), pos |-> i - 1] >>
                 \o ScanLines(data, j + 1)

\* config.LogLevel
LevelDebug == 0

LevelInfo == 1

LevelWarn == 2

LevelError == 3

LevelFatal == 4

LevelUnknown == 5

----------------------------------------------------------------------------
(* The tailer: internal/tail/tail.go.                                      *)
(* The file system is the path, the inodes' contents and the fsnotify      *)
(* watches; the environment appends, truncates, rotates and cancels while  *)
(* Run goes through its steps.                                             *)

NoFile == 0

\* bounds of the tailer model
MaxOps == 3

MaxFiles == 2

\* how many operations the environment makes where the tailer follows
\* through rotations and openFile's Stat can fail
MaxFaultOps == 5

\* readInitialLines' heuristic: 300 bytes per line, times 2
AvgLineBytes == 300

Overshoot == 2

Inodes == 1..MaxFiles

\* what one write(2) of the logging process appends: whole lines, or the
\* first bytes of a line whose newline comes with a later write
WriteChunks == { <<"a", LF>>, <<"b", LF>>, <<LF>>, <<"a">> }

\* a line longer than the bytes readInitialLines allows for one line
LongLine == [i \in 1..(AvgLineBytes * Overshoot) |-> "b"] \o <<LF>>

InitContents == { <<>>, <<"b", LF, "a", LF>>, <<"a", LF>> \o LongLine }

Patterns == {"", "a"}

\* regexp.MatchString for the model's patterns: the pattern is one literal byte
MatchString(pattern, raw) == pattern \in Range(raw)

\* the level parser.Parse gives a line: the model's lines carry no level word
LineLevel(line) == LevelUnknown

levelToInt(level) ==
    CASE level = LevelDebug -> 0
      [] level = LevelInfo  -> 1
      [] level = LevelWarn  -> 2
      [] level = LevelError -> 3
      [] level = LevelFatal -> 4
      [] OTHER -> -1

\* Tailer.parseLine; inode and pos record where the line was read from
parseLine(line, lineNum, f, p) ==
    [Raw |-> line, Line |-> lineNum, Level |-> LineLevel(line), inode |-> f, pos |-> p]

shouldDisplay(entry) ==
    /\ (opts.LevelFilter # LevelUnknown /\ entry.Level # LevelUnknown)
          => ~(levelToInt(entry.Level) < levelToInt(opts.LevelFilter))
    /\ (opts.Pattern # "") => MatchString(opts.Pattern, entry.Raw)

\* tokens of a buffer that starts at byte base of the file; gen records how
\* often the file had been truncated when the token's first byte was read:
\* first for the token that starts the buffer, now for the others
At(toks, base, first, now) ==
    [k \in 1..Len(toks) |-> [text |-> toks[k].text, pos |-> base + toks[k].pos,
                             gen |-> IF k = 1 THEN first ELSE now]]

\* the scan loop of readInitialLines and readNewContent over the tokens toks
\* of inode f, lineNum tokens having come before: number every token, skip
\* the blank ones, keep what passes
ScanEntriesFrom(toks, f, lineNum) ==
    LET all  == [k \in 1..Len(toks) |->
                    parseLine(toks[k].text, lineNum + k, f, toks[k].pos)
                       @@ [gen |-> toks[k].gen]]
        keep(e) == ~IsBlank(e.Raw) /\ shouldDisplay(e)
    IN SelectSeq(all, keep)

\* the scan loop over a whole scan of inode f as it is now
ScanEntries(toks, f) ==
    ScanEntriesFrom(At(toks, 0, hist.gen[f], hist.gen[f]), f, 0)

\* the tailer is not inside a scan
NoScanner ==
    [pos |-> 0, buf |-> <<>>, gen |-> 0, lineNum |-> 0, skip |-> FALSE, entries |-> <<>>]

\* the last newline of the buffer as a 1-based index, 0 when it has none
LastLF(buffer) ==
    LET S == {j \in 1..Len(buffer) : buffer[j] = LF}
    IN IF S = {} THEN 0 ELSE CHOOSE j \in S : \A k \in S : k <= j

\* bufio.Scanner after a read that returned bytes: the tokens ScanLines finds
\* in the buffer are the lines that have their newline
CompleteTokens(buffer) == ScanLines(SubSeq(buffer, 1, LastLF(buffer)), 1)

\* the bytes after the last newline stay in the scanner's buffer
Unfinished(buffer) == SubSeq(buffer, LastLF(buffer) + 1, Len(buffer))

\* one read(2) by the scanner sc of the file whose content is data, now
\* truncated gen times, and the tokens Scan then delivers before it reads
\* again.  A read at a position before the end of the file returns the bytes
\* up to the end (they fit the 1 MB buffer): the tokens are the lines now
\* complete.  A read at or beyond the end returns EOF: the bytes still in
\* the buffer are the last token.
ReadFile(sc, data, gen) ==
    LET base  == sc.pos - Len(sc.buf)
        first == IF sc.buf = <<>> THEN gen ELSE sc.gen
    IN IF sc.pos < Len(data)
       THEN LET buffer == sc.buf \o SubSeq(data, sc.pos + 1, Len(data))
            IN [eof |-> FALSE,
                toks |-> At(CompleteTokens(buffer), base, first, gen),
                pos |-> Len(data), buf |-> Unfinished(buffer),
                gen |-> IF LastLF(buffer) = 0 THEN first ELSE gen]
       ELSE [eof |-> TRUE, toks |-> At(ScanLines(sc.buf, 1), base, first, gen),
             pos |-> sc.pos, buf |-> <<>>, gen |-> gen]

LastN(s, n) == IF Len(s) > n THEN SubSeq(s, Len(s) - n + 1, Len(s)) ELSE s

TailInit ==
    /\ fsPath = 1
    /\ fsMoved = {}
    /\ \E c \in InitContents :
          /\ fsFiles = [f \in Inodes |-> IF f = 1 THEN c ELSE <<>>]
          /\ hist = [ops |-> 0, rotated |-> FALSE, truncated |-> FALSE,
                     initLen |-> Len(c), created |-> 1, cancelAt |-> "none",
                     gen |-> [f \in Inodes |-> 0], budget |-> MaxOps]
    /\ opts \in [Lines : {0, 1}, Follow : BOOLEAN, FollowRotate : BOOLEAN,
                 Pattern : Patterns, LevelFilter : {LevelUnknown}]
    /\ tpc = "open"
    /\ file = NoFile
    /\ offset = 0
    /\ startPos = 0
    /\ scanner = NoScanner
    /\ watched = {}
    /\ events = <<>>
    /\ werrors = 0
    /\ cancelled = FALSE
    /\ output = <<>>
    /\ result = "running"

\* the event an operation on inode f raises, if f is watched
Notify(f, op) == IF f \in watched THEN Append(events, op) ELSE events

EnvCanAct == tpc # "done" /\ hist.ops < hist.budget

\* ---- the environment ----

WriterAppend ==
    /\ EnvCanAct /\ fsPath # NoFile
    /\ \E chunk \in WriteChunks :
          fsFiles' = [fsFiles EXCEPT ![fsPath] = @ \o chunk]
    /\ events' = Notify(fsPath, "Write")
    /\ hist' = [hist EXCEPT !.ops = @ + 1]
    /\ UNCHANGED <<fsPath, opts, tpc, file, offset, startPos, watched, werrors,
                   cancelled, output, result>>
    /\ UNCHANGED <<scanner, fsMoved, nonTailVars>>

WriterTruncate ==
    /\ EnvCanAct /\ fsPath # NoFile /\ fsFiles[fsPath] # <<>>
    /\ fsFiles' = [fsFiles EXCEPT ![fsPath] = <<>>]
    /\ events' = Notify(fsPath, "Write")
    /\ hist' = [hist EXCEPT !.ops = @ + 1, !.truncated = TRUE, !.gen[fsPath] = @ + 1]
    /\ UNCHANGED <<fsPath, opts, tpc, file, offset, startPos, watched, werrors,
                   cancelled, output, result>>
    /\ UNCHANGED <<scanner, fsMoved, nonTailVars>>

\* logrotate moves the file away (Rename) or deletes it (Remove).
\* Rename: the watcher reports Rename and gives up its watch on the file.
\* Remove: while the tailer holds the file open the inode stays and the
\* watcher reports only the change of its link count, Chmod; otherwise the
\* watcher reports Remove and the watch is gone.
Rotate ==
    /\ EnvCanAct /\ fsPath # NoFile
    /\ \E op \in {"Rename", "Remove"} :
          IF op = "Remove" /\ file = fsPath
          THEN /\ events' = Notify(fsPath, "Chmod")
               /\ UNCHANGED <<watched, fsMoved>>
          ELSE /\ events' = Notify(fsPath, op)
               /\ watched' = watched \ {fsPath}
               /\ fsMoved' = IF op = "Rename" THEN fsMoved \cup {fsPath} ELSE fsMoved
    /\ fsPath' = NoFile
    /\ hist' = [hist EXCEPT !.ops = @ + 1, !.rotated = TRUE]
    /\ UNCHANGED <<fsFiles, opts, tpc, file, offset, startPos, werrors,
                   cancelled, output, result>>
    /\ UNCHANGED <<scanner, nonTailVars>>

\* the logging process creates the file again
Recreate ==
    /\ EnvCanAct /\ fsPath = NoFile /\ hist.created < MaxFiles
    /\ fsPath' = hist.created + 1
    /\ hist' = [hist EXCEPT !.ops = @ + 1, !.created = @ + 1]
    /\ UNCHANGED <<fsFiles, opts, tpc, file, offset, startPos, watched, events,
                   werrors, cancelled, output, result>>
    /\ UNCHANGED <<scanner, fsMoved, nonTailVars>>

\* a file that was moved away is moved back to the path
\* (mv app.log app.log.1; mv app.log.1 app.log); it is not watched any more
MoveBack ==
    /\ EnvCanAct /\ fsPath = NoFile
    /\ \E f \in fsMoved :
          /\ fsPath' = f
          /\ fsMoved' = fsMoved \ {f}
    /\ hist' = [hist EXCEPT !.ops = @ + 1]
    /\ UNCHANGED <<fsFiles, opts, tpc, file, offset, startPos, watched, events,
                   werrors, cancelled, output, result>>
    /\ UNCHANGED <<scanner, nonTailVars>>

Chmod ==
    /\ EnvCanAct /\ fsPath # NoFile /\ fsPath \in watched
    /\ events' = Notify(fsPath, "Chmod")
    /\ hist' = [hist EXCEPT !.ops = @ + 1]
    /\ UNCHANGED <<fsPath, fsFiles, opts, tpc, file, offset, startPos, watched,
                   werrors, cancelled, output, result>>
    /\ UNCHANGED <<scanner, fsMoved, nonTailVars>>

WatcherFails ==
    /\ EnvCanAct /\ tpc \in {"watch", "rot_wait"} /\ werrors = 0
    /\ werrors' = 1
    /\ hist' = [hist EXCEPT !.ops = @ + 1]
    /\ UNCHANGED <<fsPath, fsFiles, opts, tpc, file, offset, startPos, watched,
                   events, cancelled, output, result>>
    /\ UNCHANGED <<scanner, fsMoved, nonTailVars>>

\* Run is in watch: in its select, in handleEvent's readNewContent, or in
\* handleRotation
InFollowLoop == tpc \in {"watch", "scan", "rot_wait", "rot_add"}

Cancel ==
    /\ tpc # "done" /\ ~cancelled
    /\ cancelled' = TRUE
    /\ hist' = [hist EXCEPT !.cancelAt = IF InFollowLoop THEN "follow" ELSE "startup"]
    /\ UNCHANGED <<fsPath, fsFiles, opts, tpc, file, offset, startPos, watched,
                   events, werrors, output, result>>
    /\ UNCHANGED <<scanner, fsMoved, nonTailVars>>

\* ---- Run ----

\* Run returns res; the deferred close() and watcher.Close() run
Return(res) ==
    /\ tpc' = "done"
    /\ result' = res
    /\ file' = NoFile
    /\ watched' = {}

\* where Run goes after the initial lines
AfterInitial ==
    IF opts.Follow
    THEN tpc' = "setup" /\ UNCHANGED <<result, file, watched>>
    ELSE Return("nil")

\* openFile: os.Open
OpenFile ==
    /\ tpc = "open"
    /\ IF fsPath = NoFile
       THEN Return("failed to open file") /\ UNCHANGED <<offset>>
       ELSE /\ IF opts.Follow
               THEN file' = fsPath /\ tpc' = "open_stat" /\ UNCHANGED <<result, watched>>
               ELSE IF opts.Lines > 0
                    THEN /\ file' = fsPath /\ tpc' = "init_stat"
                         /\ UNCHANGED <<result, watched>>
                    ELSE Return("nil")
            /\ UNCHANGED offset
    /\ UNCHANGED <<fsPath, fsFiles, opts, startPos, events, werrors, cancelled,
                   output, hist>>
    /\ UNCHANGED <<scanner, fsMoved, nonTailVars>>

\* openFile: f.Stat() and t.offset = stat.Size(), when following
OpenStat ==
    /\ tpc = "open_stat"
    /\ offset' = Len(fsFiles[file])
    /\ tpc' = IF opts.Lines > 0 THEN "init_stat" ELSE "setup"
    /\ hist' = [hist EXCEPT !.initLen = Len(fsFiles[file])]
    /\ UNCHANGED <<fsPath, fsFiles, opts, file, startPos, watched, events,
                   werrors, cancelled, output, result>>
    /\ UNCHANGED <<scanner, fsMoved, nonTailVars>>

\* openFile: f.Stat() fails when following; openFile returns the error with
\* t.file set, and Run returns before it has deferred t.close()
OpenStatFails ==
    /\ tpc = "open_stat"
    /\ tpc' = "done"
    /\ result' = "failed to open file"
    /\ UNCHANGED <<fsPath, fsFiles, opts, file, offset, startPos, watched, events,
                   werrors, cancelled, output, hist>>
    /\ UNCHANGED <<scanner, fsMoved, nonTailVars>>

\* readInitialLines: t.file.Stat() and the starting position
InitStat ==
    /\ tpc = "init_stat"
    /\ LET fileSize == Len(fsFiles[file])
       IN IF fileSize = 0
          THEN AfterInitial /\ UNCHANGED startPos
          ELSE /\ startPos' = Max(0, fileSize - opts.Lines * AvgLineBytes * Overshoot)
               /\ tpc' = "init_scan"
               /\ UNCHANGED <<result, file, watched>>
    /\ UNCHANGED <<fsPath, fsFiles, opts, offset, events, werrors, cancelled,
                   output, hist>>
    /\ UNCHANGED <<scanner, fsMoved, nonTailVars>>

\* readInitialLines' scan from one read(2) of the file to the next: the
\* first token is discarded when startPos > 0, the entries that pass are
\* collected; at EOF the last N entries are handed to OutputFunc
InitScanStep(sc) ==
    \E r \in {ReadFile(sc, fsFiles[file], hist.gen[file])} :
    \E toks \in {IF sc.skip /\ r.toks # <<>> THEN Tail(r.toks) ELSE r.toks} :
    \E ents \in {sc.entries \o ScanEntriesFrom(toks, file, sc.lineNum)} :
       IF r.eof
       THEN /\ output' = output \o LastN(ents, opts.Lines)
            /\ scanner' = NoScanner
            /\ tpc' = "init_seek"
       ELSE /\ scanner' = [pos |-> r.pos, buf |-> r.buf, gen |-> r.gen,
                           lineNum |-> sc.lineNum + Len(toks),
                           skip |-> sc.skip /\ r.toks = <<>>, entries |-> ents]
            /\ tpc' = "init_read"
            /\ UNCHANGED output

\* readInitialLines: seek to startPos and the scanner's first read
InitScan ==
    /\ tpc = "init_scan"
    /\ InitScanStep([pos |-> startPos, buf |-> <<>>, gen |-> 0, lineNum |-> 0,
                     skip |-> startPos > 0, entries |-> <<>>])
    /\ UNCHANGED <<fsPath, fsFiles, opts, file, offset, startPos, watched,
                   events, werrors, cancelled, result, hist>>
    /\ UNCHANGED <<fsMoved, nonTailVars>>

\* readInitialLines: the scanner's next read of the file
InitScanRead ==
    /\ tpc = "init_read"
    /\ InitScanStep(scanner)
    /\ UNCHANGED <<fsPath, fsFiles, opts, file, offset, startPos, watched,
                   events, werrors, cancelled, result, hist>>
    /\ UNCHANGED <<fsMoved, nonTailVars>>

\* readInitialLines: t.offset = t.file.Seek(0, io.SeekEnd)
InitSeek ==
    /\ tpc = "init_seek"
    /\ offset' = Len(fsFiles[file])
    /\ AfterInitial
    /\ UNCHANGED <<fsPath, fsFiles, opts, startPos, events, werrors, cancelled,
                   output, hist>>
    /\ UNCHANGED <<scanner, fsMoved, nonTailVars>>

\* setupWatcher: fsnotify.NewWatcher and watcher.Add(FilePath)
SetupWatcher ==
    /\ tpc = "setup"
    /\ IF fsPath = NoFile
       THEN Return("failed to setup watcher")
       ELSE /\ watched' = watched \cup {fsPath}
            /\ tpc' = "watch"
            /\ UNCHANGED <<result, file>>
    /\ UNCHANGED <<fsPath, fsFiles, opts, offset, startPos, events, werrors,
                   cancelled, output, hist>>
    /\ UNCHANGED <<scanner, fsMoved, nonTailVars>>

\* watch: case <-ctx.Done()
WatchCancelled ==
    /\ tpc = "watch" /\ cancelled
    /\ Return("nil")
    /\ UNCHANGED <<fsPath, fsFiles, opts, offset, startPos, events, werrors,
                   cancelled, output, hist>>
    /\ UNCHANGED <<scanner, fsMoved, nonTailVars>>

\* watch: case err := <-t.watcher.Errors
WatchError ==
    /\ tpc = "watch" /\ werrors > 0
    /\ werrors' = werrors - 1
    /\ Return("watcher error")
    /\ UNCHANGED <<fsPath, fsFiles, opts, offset, startPos, events, cancelled,
                   output, hist>>
    /\ UNCHANGED <<scanner, fsMoved, nonTailVars>>

\* readNewContent's loop for scanner.Scan(), from one read(2) of the file to
\* the next: the tokens are emitted as they come; at EOF t.offset becomes
\* the file position, t.file.Seek(0, io.SeekCurrent)
ScanStep(sc) ==
    \E r \in {ReadFile(sc, fsFiles[file], hist.gen[file])} :
       /\ output' = output \o ScanEntriesFrom(r.toks, file, sc.lineNum)
       /\ IF r.eof
          THEN /\ offset' = r.pos
               /\ scanner' = NoScanner
               /\ tpc' = "watch"
          ELSE /\ scanner' = [pos |-> r.pos, buf |-> r.buf, gen |-> r.gen,
                              lineNum |-> sc.lineNum + Len(r.toks),
                              skip |-> FALSE, entries |-> <<>>]
               /\ tpc' = "scan"
               /\ UNCHANGED offset

\* readNewContent: seek to t.offset and the scanner's first read;
\* on a nil t.file (after a cancelled rotation wait) Seek fails with os.ErrInvalid
readNewContent ==
    IF file = NoFile
    THEN /\ Return("invalid argument")
         /\ UNCHANGED <<offset, output, scanner>>
    ELSE /\ ScanStep([pos |-> offset, buf |-> <<>>, gen |-> 0, lineNum |-> 0,
                      skip |-> FALSE, entries |-> <<>>])
         /\ UNCHANGED <<result, file, watched>>

\* handleRotation up to the wait loop
handleRotation ==
    IF ~opts.FollowRotate
    THEN Return("file rotated")
    ELSE /\ file' = NoFile
         /\ tpc' = "rot_wait"
         /\ UNCHANGED <<result, watched>>

\* watch: case event := <-t.watcher.Events, and handleEvent
WatchEvent ==
    /\ tpc = "watch" /\ events # <<>>
    /\ events' = Tail(events)
    /\ LET event == Head(events)
       IN CASE event = "Write" -> readNewContent
            [] event \in {"Rename", "Remove"} ->
                  handleRotation /\ UNCHANGED <<offset, output, scanner>>
            [] OTHER -> UNCHANGED <<tpc, result, file, watched, offset, output,
                                    scanner>>
    /\ UNCHANGED <<fsPath, fsFiles, opts, startPos, werrors, cancelled, hist>>
    /\ UNCHANGED <<fsMoved, nonTailVars>>

\* readNewContent: the scanner's next read of the file
ScanRead ==
    /\ tpc = "scan"
    /\ ScanStep(scanner)
    /\ UNCHANGED <<fsPath, fsFiles, opts, file, startPos, watched, events, werrors,
                   cancelled, result, hist>>
    /\ UNCHANGED <<fsMoved, nonTailVars>>

\* handleRotation: case <-ctx.Done(); watch's loop goes on with t.file nil
RotationCancelled ==
    /\ tpc = "rot_wait" /\ cancelled
    /\ tpc' = "watch"
    /\ UNCHANGED <<fsPath, fsFiles, opts, file, offset, startPos, watched,
                   events, werrors, cancelled, output, result, hist>>
    /\ UNCHANGED <<scanner, fsMoved, nonTailVars>>

\* handleRotation: case <-timeout
RotationTimeout ==
    /\ tpc = "rot_wait"
    /\ Return("timeout waiting for rotated file to reappear")
    /\ UNCHANGED <<fsPath, fsFiles, opts, offset, startPos, events, werrors,
                   cancelled, output, hist>>
    /\ UNCHANGED <<scanner, fsMoved, nonTailVars>>

\* handleRotation: case <-ticker.C and os.Open succeeds: t.file = f and
\* t.offset = 0
RotationReopen ==
    /\ tpc = "rot_wait" /\ fsPath # NoFile
    /\ file' = fsPath
    /\ offset' = 0
    /\ tpc' = "rot_add"
    /\ UNCHANGED <<fsPath, fsFiles, opts, startPos, watched, events, werrors,
                   cancelled, output, result, hist>>
    /\ UNCHANGED <<scanner, fsMoved, nonTailVars>>

\* handleRotation: t.watcher.Add(t.opts.FilePath) after the reopening; it
\* fails when the path has been moved away again
RotationWatch ==
    /\ tpc = "rot_add"
    /\ IF fsPath = NoFile
       THEN Return("failed to watch rotated file")
       ELSE /\ watched' = watched \cup {fsPath}
            /\ tpc' = "watch"
            /\ UNCHANGED <<result, file>>
    /\ UNCHANGED <<fsPath, fsFiles, opts, offset, startPos, events, werrors,
                   cancelled, output, hist>>
    /\ UNCHANGED <<scanner, fsMoved, nonTailVars>>

TailEnv ==
    \/ WriterAppend
    \/ WriterTruncate
    \/ Rotate
    \/ Recreate
    \/ MoveBack
    \/ Chmod
    \/ WatcherFails
    \/ Cancel

TailRun ==
    \/ OpenFile
    \/ OpenStat
    \/ InitStat
    \/ InitScan
    \/ InitScanRead
    \/ InitSeek
    \/ SetupWatcher
    \/ WatchCancelled
    \/ WatchError
    \/ WatchEvent
    \/ ScanRead
    \/ RotationCancelled
    \/ RotationTimeout
    \/ RotationReopen
    \/ RotationWatch

TailNext == TailEnv \/ TailRun

\* the tailer with follow and follow-rotate, in an environment that makes
\* more operations and can fail openFile's Stat
TailFaultsInit ==
    /\ fsPath = 1
    /\ fsMoved = {}
    /\ fsFiles = [f \in Inodes |-> <<>>]
    /\ hist = [ops |-> 0, rotated |-> FALSE, truncated |-> FALSE,
               initLen |-> 0, created |-> 1, cancelAt |-> "none",
               gen |-> [f \in Inodes |-> 0], budget |-> MaxFaultOps]
    /\ opts = [Lines |-> 0, Follow |-> TRUE, FollowRotate |-> TRUE,
               Pattern |-> "", LevelFilter |-> LevelUnknown]
    /\ tpc = "open"
    /\ file = NoFile
    /\ offset = 0
    /\ startPos = 0
    /\ scanner = NoScanner
    /\ watched = {}
    /\ events = <<>>
    /\ werrors = 0
    /\ cancelled = FALSE
    /\ output = <<>>
    /\ result = "running"

TailFaultsNext ==
    \/ WriterAppend
    \/ Rotate
    \/ Recreate
    \/ MoveBack
    \/ OpenFile
    \/ OpenStat
    \/ OpenStatFails
    \/ SetupWatcher
    \/ WatchEvent
    \/ ScanRead
    \/ RotationTimeout
    \/ RotationReopen
    \/ RotationWatch

\* the tailer when another component is the one running
TailIdle ==
    /\ fsPath = NoFile /\ fsFiles = <<>> /\ fsMoved = {} /\ opts = <<>> /\ tpc = "idle"
    /\ file = NoFile /\ offset = 0 /\ startPos = 0 /\ watched = {}
    /\ scanner = NoScanner
    /\ events = <<>> /\ werrors = 0 /\ cancelled = FALSE /\ output = <<>>
    /\ result = "idle" /\ hist = <<>>

----------------------------------------------------------------------------
(* The Drain template extractor: DrainExtractor.                           *)
(* A message is its token list (tokenize splits on whitespace); a template *)
(* ID "T_n" is the number n; a tree node is the path of keys from the root,*)
(* the length key first.                                                   *)

\* the extractor's configuration, DefaultDrainConfig: what
\* NewDrainExtractor(0, 0, 0) and NewDrainExtractor(4, 0.5, 100) give
DrainDepth == 4

SimNum == 1

SimDen == 2

MaxChildren == 100

\* how many calls (Extract, Reset) one behaviour makes
MaxCalls == 4

Wild == "<*>"

\* the messages the callers extract, as token lists
Messages ==
    { <<>>,
      <<"a", "b", "c", "d", "e", "f", "g", "h">>,
      <<"a", "b", "c", "p", "q", "r", "s", "t">>,
      <<"a", "b", "c", "d", "e", "r", "s", "t">>,
      <<"a", "a", "a">>, <<"b", "a", "a">>, <<"7", "a", "a">>,
      <<"a", "7">>, <<"b", "7">> }

\* MaxChildren + 1 one-token messages with distinct tokens, none of them a
\* variable token: "aa", "ab", ..., "jb"
Letters == <<"a", "b", "c", "d", "e", "f", "g", "h", "i", "j", "k">>

DistinctMessage(n) ==
    << Letters[((n - 1) \div Len(Letters)) + 1] \o Letters[((n - 1) % Len(Letters)) + 1] >>

\* isVariableToken on the model's tokens: "7" is a number, the others are
\* IP addresses
isVariableToken(token) == token \in {"7", "10.0.0.1", "10.0.0.250", "10.0.1.54"}

\* the children of node path in tree
Children(tree, path) ==
    {q \in DOMAIN tree : Len(q) = Len(path) + 1 /\ SubSeq(q, 1, Len(path)) = path}

\* a tree with a new node at path q, its templateIDs empty
AddNode(tree, q) ==
    [x \in DOMAIN tree \cup {q} |-> IF x \in DOMAIN tree THEN tree[x] ELSE <<>>]

EmptyTree == [x \in {<<>>} |-> <<>>]

\* findOrCreateTemplate, levels 2 to depth-1: from node path, follow (creating
\* where missing) the child of each of the first depth-1 tokens, from the i-th
RECURSIVE Descend(_, _, _, _)
Descend(tree, path, tokens, i) ==
    IF i > Len(tokens) \/ i > DrainDepth - 1
    THEN [tree |-> tree, path |-> path]
    ELSE LET tok0 == IF isVariableToken(tokens[i]) THEN Wild ELSE tokens[i]
             tok  == IF Append(path, tok0) \in DOMAIN tree THEN tok0
                     ELSE IF Cardinality(Children(tree, path)) >= MaxChildren
                          THEN Wild
                          ELSE tok0
             next == Append(path, tok)
             tree2 == IF next \in DOMAIN tree THEN tree ELSE AddNode(tree, next)
         IN Descend(tree2, next, tokens, i + 1)

\* calculateSimilarity: the number of matching positions
Matches(tokens1, tokens2) ==
    Cardinality({i \in 1..Min(Len(tokens1), Len(tokens2)) :
                    tokens1[i] = Wild \/ tokens2[i] = Wild \/ tokens1[i] = tokens2[i]})

\* calculateSimilarity(tokens1, tokens2) >= d.simThreshold
Similar(tokens1, tokens2) ==
    IF Len(tokens1) = 0 /\ Len(tokens2) = 0 THEN TRUE
    ELSE IF Len(tokens1) = 0 \/ Len(tokens2) = 0 THEN FALSE
    ELSE Matches(tokens1, tokens2) * SimDen >= SimNum * Max(Len(tokens1), Len(tokens2))

\* a mergeTemplates that takes the new message's tokens as the pattern
mergeTemplates_TakeNew(existingTokens, newTokens) == newTokens

mergeTemplates(existingTokens, newTokens) ==
    [i \in 1..Max(Len(existingTokens), Len(newTokens)) |->
        IF i > Len(existingTokens) \/ i > Len(newTokens) THEN Wild
        ELSE IF existingTokens[i] = Wild \/ existingTokens[i] # newTokens[i] THEN Wild
        ELSE existingTokens[i]]

createTemplateTokens(tokens) ==
    [i \in 1..Len(tokens) |-> IF isVariableToken(tokens[i]) THEN Wild ELSE tokens[i]]

\* generateTemplateID: "T_%d" of len(d.templates)+1
generateTemplateID(tmpls) == Len(tmpls) + 1

\* the leaf loop: the position in ids of the first template that is similar
\* enough to tokens, 0 when there is none
FirstSimilar(ids, tokens, tmpls) ==
    LET S == {k \in 1..Len(ids) : Similar(tokens, tmpls[ids[k]].Tokens)}
    IN IF S = {} THEN 0 ELSE CHOOSE k \in S : \A j \in S : k <= j

\* findOrCreateTemplate: the tree, the templates and the ID it returns
findOrCreateTemplate(tree, tmpls, tokens) ==
    LET lenKey == << Len(tokens) >>
        tree1  == IF lenKey \in DOMAIN tree THEN tree ELSE AddNode(tree, lenKey)
        d      == Descend(tree1, lenKey, tokens, 1)
        ids    == d.tree[d.path]
        k      == FirstSimilar(ids, tokens, tmpls)
    IN IF k # 0
       THEN [root |-> d.tree,
             templates |-> [tmpls EXCEPT ![ids[k]].Tokens = mergeTemplates(@, tokens)],
             id |-> ids[k], leaf |-> d.path]
       ELSE LET id == generateTemplateID(tmpls)
            IN [root |-> [d.tree EXCEPT ![d.path] = Append(@, id)],
                templates |-> Append(tmpls, [Tokens |-> createTemplateTokens(tokens),
                                             Count |-> 0, Examples |-> <<>>]),
                id |-> id, leaf |-> d.path]

DrainInit ==
    /\ root = EmptyTree
    /\ templates = <<>>
    /\ dhist = [calls |-> 0, resets |-> 0, first |-> [m \in Messages |-> 0],
                last |-> [msg |-> <<>>, id |-> 0], assigned |-> <<>>]

\* Extract on a message with tokens: findOrCreateTemplate, then Count++ and
\* the example kept while there are fewer than 3
ExtractOne(tree, tmpls, tokens) ==
    LET r == findOrCreateTemplate(tree, tmpls, tokens)
    IN [root |-> r.root,
        templates |-> [r.templates EXCEPT
                          ![r.id].Count = @ + 1,
                          ![r.id].Examples = IF Len(@) < 3 THEN Append(@, tokens) ELSE @],
        id |-> r.id]

\* Extract(message); the ID 0 stands for the empty string it returns for a
\* message without tokens
Extract ==
    /\ dhist.calls < MaxCalls
    /\ \E tokens \in Messages :
          IF Len(tokens) = 0
          THEN /\ dhist' = [dhist EXCEPT !.calls = @ + 1,
                                         !.last = [msg |-> tokens, id |-> 0]]
               /\ UNCHANGED <<root, templates>>
          ELSE LET r == ExtractOne(root, templates, tokens)
               IN /\ root' = r.root
                  /\ templates' = r.templates
                  /\ dhist' = [calls |-> dhist.calls + 1,
                               resets |-> dhist.resets,
                               first |-> IF dhist.first[tokens] = 0
                                         THEN [dhist.first EXCEPT ![tokens] = r.id]
                                         ELSE dhist.first,
                               last  |-> [msg |-> tokens, id |-> r.id],
                               assigned |-> IF Len(r.templates) > Len(templates)
                                            THEN Append(dhist.assigned, r.id)
                                            ELSE dhist.assigned]
    /\ UNCHANGED nonDrainVars

\* Reset
DrainReset ==
    /\ dhist.calls < MaxCalls
    /\ root' = EmptyTree
    /\ templates' = <<>>
    /\ dhist' = [calls |-> dhist.calls + 1, resets |-> dhist.resets + 1,
                 first |-> [m \in Messages |-> 0],
                 last |-> [msg |-> <<>>, id |-> 0], assigned |-> dhist.assigned]
    /\ UNCHANGED nonDrainVars

DrainNext == Extract \/ DrainReset

\* a caller that extracts MaxChildren + 1 messages of one token, each token
\* new: Extract(DistinctMessage(n)) for n = 1, 2, ...
ExtractDistinct ==
    /\ dhist.calls < MaxChildren + 1
    /\ \E r \in {ExtractOne(root, templates, DistinctMessage(dhist.calls + 1))} :
          /\ root' = r.root
          /\ templates' = r.templates
          /\ dhist' = [dhist EXCEPT !.calls = @ + 1,
                                    !.last = [msg |-> DistinctMessage(dhist.calls + 1),
                                              id |-> r.id],
                                    !.assigned = IF Len(r.templates) > Len(templates)
                                                 THEN Append(@, r.id) ELSE @]
    /\ UNCHANGED nonDrainVars

DrainFanOutNext == ExtractDistinct

DrainIdle == root = <<>> /\ templates = <<>> /\ dhist = <<>>


----------------------------------------------------------------------------
(* Goroutines calling ExtractWithTemplate on one DrainExtractor while     *)
(* others call Extract and Reset.  ExtractWithTemplate is two critical     *)
(* sections: Extract under d.mu.Lock, then the read of d.templates under   *)
(* d.mu.RLock.  A template's pattern is its token list.                    *)

DrainGoroutines == {1, 2}

\* a goroutine that is not in a call
DrainGoIdleState ==
    [pc |-> "idle", msg |-> <<>>, id |-> 0, epoch |-> 0, pattern |-> <<>>,
     readEpoch |-> 0]

DrainGoInit ==
    /\ DrainInit
    /\ dgo = [g \in DrainGoroutines |-> DrainGoIdleState]

\* goroutine g calls ExtractWithTemplate(message): d.Extract(message) has
\* returned templateID and released the lock
GoExtract(g) ==
    /\ dgo[g].pc \in {"idle", "returned"}
    /\ dhist.calls < MaxCalls
    /\ \E tokens \in Messages :
          IF Len(tokens) = 0
          THEN /\ dgo' = [dgo EXCEPT ![g] = [DrainGoIdleState EXCEPT
                                               !.pc = "read", !.epoch = dhist.resets]]
               /\ dhist' = [dhist EXCEPT !.calls = @ + 1,
                                         !.last = [msg |-> tokens, id |-> 0]]
               /\ UNCHANGED <<root, templates>>
          ELSE LET r == ExtractOne(root, templates, tokens)
               IN /\ root' = r.root
                  /\ templates' = r.templates
                  /\ dhist' = [dhist EXCEPT !.calls = @ + 1,
                                            !.last = [msg |-> tokens, id |-> r.id]]
                  /\ dgo' = [dgo EXCEPT ![g] =
                                [pc |-> "read", msg |-> tokens, id |-> r.id,
                                 epoch |-> dhist.resets, pattern |-> <<>>,
                                 readEpoch |-> 0]]
    /\ UNCHANGED nonDrainGoVars

\* ExtractWithTemplate's second half: under the read lock, the pattern of
\* d.templates[templateID], the empty pattern when there is none
GoReadTemplate(g) ==
    /\ dgo[g].pc = "read"
    /\ dgo' = [dgo EXCEPT ![g].pc = "returned",
                          ![g].pattern = IF dgo[g].id \in 1..Len(templates)
                                         THEN templates[dgo[g].id].Tokens
                                         ELSE <<>>,
                          ![g].readEpoch = dhist.resets]
    /\ UNCHANGED drainVars
    /\ UNCHANGED nonDrainGoVars

\* another goroutine calls Reset
GoDrainReset ==
    /\ dhist.calls < MaxCalls
    /\ root' = EmptyTree
    /\ templates' = <<>>
    /\ dhist' = [dhist EXCEPT !.calls = @ + 1, !.resets = @ + 1,
                              !.last = [msg |-> <<>>, id |-> 0]]
    /\ UNCHANGED dgo
    /\ UNCHANGED nonDrainGoVars

DrainGoNext ==
    \/ \E g \in DrainGoroutines : GoExtract(g) \/ GoReadTemplate(g)
    \/ GoDrainReset

DrainGoIdle == dgo = <<>>

----------------------------------------------------------------------------
(* ChatStream of the two providers: Provider.ChatStream (Ollama) and       *)
(* langchainAdapter.ChatStream.  The backend call hands its chunks to the  *)
(* callback one by one and then ends; the producer goroutine sends events  *)
(* into eventChan and closes it when it returns; the caller ranges over    *)
(* the channel, may cancel the context, and leaves its loop when it        *)
(* receives an event with an error, as the callers in cmd/analyze.go and   *)
(* the tests do.  cmd/analyze.go reaches the Ollama provider through       *)
(* ollamaProviderAdapter.ChatStream, whose goroutine ranges over the       *)
(* provider's channel, never leaves on an error, and forwards every event  *)
(* into a channel of its own, which the caller reads.  A chunk is its      *)
(* number; a send blocks while the buffer is full.  An Ollama response     *)
(* carries a done flag, set on the last response of a stream, and its      *)
(* content may be empty; a langchain chunk is bytes only.                  *)

\* make(chan StreamEvent, 10)
eventChanCap == 10

\* how many chunks the backend produces at most
MaxChunks == 11

\* how many chunks the backend produces: none, a few, or more than the
\* channel's buffer holds
StreamLengths == {n \in 0..MaxChunks : n <= 3 \/ n >= MaxChunks}

\* what a receive yields once the channel is closed and drained
Closed == [Content |-> 0, Done |-> FALSE, Error |-> "closed"]

\* StreamEvent{Content: ..., Done: done}: Ollama copies resp.Done, langchain
\* passes false
ChunkEvent(k, done) == [Content |-> k, Done |-> done, Error |-> "nil"]

DoneEvent == [Content |-> 0, Done |-> TRUE, Error |-> "nil"]

ErrorEvent(err) == [Content |-> 0, Done |-> TRUE, Error |-> err]

\* the caller's last receive found the channel closed
SawClosed == IF received = <<>> THEN FALSE ELSE received[Len(received)] = Closed

\* the event the caller received last has event.Error != nil
SawError ==
    IF received = <<>> THEN FALSE
    ELSE received[Len(received)].Error \notin {"nil", "closed"}

NoAdapter == <<>>

\* the adapter's goroutine as it starts: eventChan := make(chan StreamEvent, 10)
NewAdapter == [pc |-> "range", pending |-> DoneEvent, out |-> <<>>, closed |-> FALSE]

\* the channel the caller ranges over: its buffer, and whether it is closed
CallerChan == IF adapter = NoAdapter THEN eventChan ELSE adapter.out

CallerChanClosed == IF adapter = NoAdapter THEN chanClosed ELSE adapter.closed

ChatInit ==
    /\ stream \in {s \in [impl : {"ollama", "langchain"}, total : StreamLengths,
                          lastDone : BOOLEAN, lastEmpty : BOOLEAN,
                          outcome : {"nil", "backend"}, k : {0}, pc : {"call"},
                          pending : {DoneEvent}, callErr : {"running"}] :
                       (s.impl = "langchain" \/ s.total = 0)
                          => (~s.lastDone /\ ~s.lastEmpty)}
    /\ adapter \in IF stream.impl = "ollama" THEN {NoAdapter, NewAdapter} ELSE {NoAdapter}
    /\ eventChan = <<>>
    /\ chanClosed = FALSE
    /\ ctxErr = "nil"
    /\ received = <<>>
    /\ stopped = FALSE

\* the goroutine after the backend call has returned err.
\* Ollama: an error other than context.Canceled is sent as an event, then
\* the deferred close runs.  langchain: an error event or the Done event is
\* sent, then the deferred close runs.
AfterCall(err) ==
    IF stream.impl = "ollama"
    THEN IF err # "nil" /\ err # "canceled"
         THEN [stream EXCEPT !.callErr = err, !.pc = "final_send",
                             !.pending = ErrorEvent("unavailable")]
         ELSE [stream EXCEPT !.callErr = err, !.pc = "closing"]
    ELSE [stream EXCEPT !.callErr = err, !.pc = "final_send",
                        !.pending = IF err # "nil" THEN ErrorEvent(err) ELSE DoneEvent]

\* the backend call hands the next chunk to the callback.
\* Ollama: the callback first polls ctx.Done(); when cancelled it goes to
\* send the error event; otherwise it sends the chunk with the response's
\* done flag, unless the content is empty, and then it returns nil at once.
\* langchain: the callback enters its select with Done: false.
BackendChunk ==
    /\ stream.pc = "call" /\ stream.k < stream.total
    /\ stream' = IF stream.impl = "ollama"
                 THEN IF ctxErr # "nil"
                      THEN [stream EXCEPT !.pc = "cb_cancel_send",
                                          !.pending = ErrorEvent("canceled")]
                      ELSE IF stream.k + 1 = stream.total /\ stream.lastEmpty
                      THEN [stream EXCEPT !.k = @ + 1]
                      ELSE [stream EXCEPT !.pc = "cb_send", !.k = @ + 1,
                                          !.pending = ChunkEvent(stream.k + 1,
                                              stream.k + 1 = stream.total /\ stream.lastDone)]
                 ELSE [stream EXCEPT !.pc = "cb_select", !.k = @ + 1,
                                     !.pending = ChunkEvent(stream.k + 1, FALSE)]
    /\ UNCHANGED <<adapter, eventChan, chanClosed, ctxErr, received, stopped>>
    /\ UNCHANGED nonChatVars

\* the backend call ends after its last chunk, with nil or with an error
BackendReturns ==
    /\ stream.pc = "call" /\ stream.k = stream.total
    /\ stream' = AfterCall(stream.outcome)
    /\ UNCHANGED <<adapter, eventChan, chanClosed, ctxErr, received, stopped>>
    /\ UNCHANGED nonChatVars

\* the backend call notices the cancelled context itself, while it waits
\* for the next chunk, and returns ctx.Err()
BackendCancelled ==
    /\ stream.pc = "call" /\ ctxErr # "nil"
    /\ stream' = AfterCall(ctxErr)
    /\ UNCHANGED <<adapter, eventChan, chanClosed, ctxErr, received, stopped>>
    /\ UNCHANGED nonChatVars

\* eventChan <- event: a plain send, possible while the buffer has room
Send ==
    /\ stream.pc \in {"cb_send", "cb_cancel_send", "final_send"}
    /\ Len(eventChan) < eventChanCap
    /\ eventChan' = Append(eventChan, stream.pending)
    /\ stream' = CASE stream.pc = "cb_send" -> [stream EXCEPT !.pc = "call"]
                   [] stream.pc = "cb_cancel_send" -> AfterCall(ctxErr)
                   [] OTHER -> [stream EXCEPT !.pc = "closing"]
    /\ UNCHANGED <<adapter, chanClosed, ctxErr, received, stopped>>
    /\ UNCHANGED nonChatVars

\* langchain's callback: select between the send and <-ctx.Done()
SelectSend ==
    /\ stream.pc = "cb_select"
    /\ \/ /\ Len(eventChan) < eventChanCap
          /\ eventChan' = Append(eventChan, stream.pending)
          /\ stream' = [stream EXCEPT !.pc = "call"]
       \/ /\ ctxErr # "nil"
          /\ stream' = AfterCall(ctxErr)
          /\ UNCHANGED eventChan
    /\ UNCHANGED <<adapter, chanClosed, ctxErr, received, stopped>>
    /\ UNCHANGED nonChatVars

\* a goroutine that returns without closing the channel
Close_Forgotten ==
    /\ stream.pc = "closing"
    /\ stream' = [stream EXCEPT !.pc = "done"]
    /\ UNCHANGED <<adapter, eventChan, chanClosed, ctxErr, received, stopped>>
    /\ UNCHANGED nonChatVars

\* defer close(eventChan)
Close ==
    /\ stream.pc = "closing"
    /\ chanClosed' = TRUE
    /\ stream' = [stream EXCEPT !.pc = "done"]
    /\ UNCHANGED <<adapter, eventChan, ctxErr, received, stopped>>
    /\ UNCHANGED nonChatVars

ProducerNext ==
    BackendChunk \/ BackendReturns \/ BackendCancelled \/ Send \/ SelectSend \/ Close

\* the adapter's for ollamaEvent := range ollamaStream: it takes the oldest
\* event of the provider's channel; when that channel is closed and drained
\* the loop ends and the deferred close(eventChan) closes its own channel
AdapterReceive ==
    /\ adapter # NoAdapter /\ adapter.pc = "range"
    /\ IF eventChan # <<>>
       THEN /\ adapter' = [adapter EXCEPT !.pc = "send",
                              !.pending = [Content |-> Head(eventChan).Content,
                                           Done    |-> Head(eventChan).Done,
                                           Error   |-> Head(eventChan).Error]]
            /\ eventChan' = Tail(eventChan)
       ELSE /\ chanClosed
            /\ adapter' = [adapter EXCEPT !.pc = "done", !.closed = TRUE]
            /\ UNCHANGED eventChan
    /\ UNCHANGED <<stream, chanClosed, ctxErr, received, stopped>>
    /\ UNCHANGED nonChatVars

\* the adapter's eventChan <- StreamEvent{...}: a plain send into its own
\* channel, possible while that buffer has room
AdapterSend ==
    /\ adapter # NoAdapter /\ adapter.pc = "send"
    /\ Len(adapter.out) < eventChanCap
    /\ adapter' = [adapter EXCEPT !.pc = "range", !.out = Append(@, adapter.pending)]
    /\ UNCHANGED <<stream, eventChan, chanClosed, ctxErr, received, stopped>>
    /\ UNCHANGED nonChatVars

AdapterNext == AdapterReceive \/ AdapterSend

\* the caller's for event := range stream: the oldest event, or the closure
\* of a drained channel
Receive ==
    /\ ~stopped /\ ~SawError
    /\ IF CallerChan # <<>>
       THEN /\ received' = Append(received, Head(CallerChan))
            /\ IF adapter = NoAdapter
               THEN eventChan' = Tail(eventChan) /\ UNCHANGED adapter
               ELSE adapter' = [adapter EXCEPT !.out = Tail(@)] /\ UNCHANGED eventChan
       ELSE /\ CallerChanClosed
            /\ ~SawClosed
            /\ received' = Append(received, Closed)
            /\ UNCHANGED <<eventChan, adapter>>
    /\ UNCHANGED <<stream, chanClosed, ctxErr, stopped>>
    /\ UNCHANGED nonChatVars

\* the caller cancels the context, or its deadline passes
CancelCtx ==
    /\ ctxErr = "nil" /\ ~CallerChanClosed
    /\ ctxErr' \in {"canceled", "deadline"}
    /\ UNCHANGED <<adapter, stream, eventChan, chanClosed, received, stopped>>
    /\ UNCHANGED nonChatVars

\* the caller's if event.Error != nil { break }: it leaves its loop with
\* whatever is still to come unread
StopReceiving ==
    /\ ~stopped /\ SawError
    /\ stopped' = TRUE
    /\ UNCHANGED <<adapter, stream, eventChan, chanClosed, ctxErr, received>>
    /\ UNCHANGED nonChatVars

ChatNext == ProducerNext \/ AdapterNext \/ Receive \/ CancelCtx \/ StopReceiving

ChatIdle ==
    /\ stream = <<>> /\ eventChan = <<>> /\ chanClosed = FALSE /\ ctxErr = "nil"
    /\ received = <<>> /\ stopped = FALSE /\ adapter = NoAdapter

----------------------------------------------------------------------------
(* The redactor: internal/preprocess/redact.go.                            *)
(* A text is a list of words; a word is either plain or a sensitive value  *)
(* that exactly one built-in pattern matches.                              *)

\* how many calls (Redact, Reset) one behaviour makes
MaxRedactCalls == 3

\* BuiltInPatterns: name -> Type, for the patterns the model enables
PatternType == [ipv4 |-> "IPV4", email |-> "EMAIL"]

\* the sensitive values of the model and the built-in pattern matching each
SensitiveValues == {"10.0.0.1", "10.0.0.250", "10.0.1.54", "user@example.com"}

PatternOf(value) == IF value = "user@example.com" THEN "email" ELSE "ipv4"

Words == SensitiveValues \cup {"from"}

Texts == {<<w>> : w \in Words} \cup {<<v, w>> : v \in SensitiveValues, w \in SensitiveValues}

PatternLists == { <<"ipv4">>, <<"ipv4", "email">> }

\* hashValue: hex.EncodeToString(sha256.Sum256(value)[:2]), tabulated for the
\* model's values ("10.0.0.250" and "10.0.1.54" agree in these two bytes)
hashValue(value) ==
    CASE value = "10.0.0.1"         -> "f504"
      [] value = "10.0.0.250"       -> "7879"
      [] value = "10.0.1.54"        -> "7879"
      [] value = "user@example.com" -> "b4c9"

\* fmt.Sprintf("[%s:%s]", patternType, hash)
FormatPlaceholder(patternType, hash) == "[" \o patternType \o ":" \o hash \o "]"

\* a getPlaceholder whose placeholder does not depend on the value
getPlaceholder_NoHash(map, value, patternType) ==
    IF value \in DOMAIN map
    THEN [map |-> map, placeholder |-> map[value]]
    ELSE LET placeholder == FormatPlaceholder(patternType, "0000")
         IN [map |-> map @@ (value :> placeholder), placeholder |-> placeholder]

\* getPlaceholder: the placeholder and the map afterwards
getPlaceholder(map, value, patternType) ==
    IF value \in DOMAIN map
    THEN [map |-> map, placeholder |-> map[value]]
    ELSE LET placeholder == FormatPlaceholder(patternType, hashValue(value))
         IN [map |-> map @@ (value :> placeholder), placeholder |-> placeholder]

\* redactPattern: ReplaceAllStringFunc over the words of text from the i-th,
\* left to right; subs collects (pattern, value, placeholder) of each match
RECURSIVE redactPattern(_, _, _, _, _)
redactPattern(map, text, pattern, i, subs) ==
    IF i > Len(text) THEN [map |-> map, text |-> text, subs |-> subs]
    ELSE IF text[i] \in SensitiveValues /\ PatternOf(text[i]) = pattern
         THEN LET g == getPlaceholder(map, text[i], PatternType[pattern])
              IN redactPattern(g.map, [text EXCEPT ![i] = g.placeholder], pattern, i + 1,
                               subs \cup {[pattern |-> pattern, value |-> text[i],
                                           placeholder |-> g.placeholder]})
         ELSE redactPattern(map, text, pattern, i + 1, subs)

\* Redact's loop over r.patterns, from the k-th
RECURSIVE RedactFrom(_, _, _, _, _)
RedactFrom(map, text, patterns, k, subs) ==
    IF k > Len(patterns) THEN [map |-> map, text |-> text, subs |-> subs]
    ELSE LET r == redactPattern(map, text, patterns[k], 1, subs)
         IN RedactFrom(r.map, r.text, patterns, k + 1, r.subs)

RedactInit ==
    /\ redactor \in [enabled : BOOLEAN, patterns : PatternLists]
    /\ hashMap = <<>>
    /\ rhist = [calls |-> 0, subs |-> {}, lastIn |-> <<>>, lastOut |-> <<>>]

\* Redact(text)
Redact ==
    /\ rhist.calls < MaxRedactCalls
    /\ \E text \in Texts :
          IF ~redactor.enabled \/ Len(redactor.patterns) = 0
          THEN /\ rhist' = [rhist EXCEPT !.calls = @ + 1, !.lastIn = text, !.lastOut = text]
               /\ UNCHANGED hashMap
          ELSE LET r == RedactFrom(hashMap, text, redactor.patterns, 1, rhist.subs)
               IN /\ hashMap' = r.map
                  /\ rhist' = [calls |-> rhist.calls + 1, subs |-> r.subs,
                               lastIn |-> text, lastOut |-> r.text]
    /\ UNCHANGED redactor
    /\ UNCHANGED nonRedactVars

\* Reset
RedactReset ==
    /\ rhist.calls < MaxRedactCalls
    /\ hashMap' = <<>>
    /\ rhist' = [rhist EXCEPT !.calls = @ + 1, !.subs = {}, !.lastIn = <<"Reset">>,
                              !.lastOut = <<>>]
    /\ UNCHANGED redactor
    /\ UNCHANGED nonRedactVars

RedactNext == Redact \/ RedactReset

RedactIdle == redactor = <<>> /\ hashMap = <<>> /\ rhist = <<>>

----------------------------------------------------------------------------
(* Goroutines calling Redact and Reset on one Redactor.  A goroutine's     *)
(* steps are the critical sections of getPlaceholder: the lookup under     *)
(* r.mu.RLock and, after a miss, the store under r.mu.Lock.  The callers   *)
(* use the redactor variables above; rhist.calls counts the calls made,    *)
(* and a goroutine keeps its substitutions until its call returns.         *)

\* the goroutines sharing the redactor
RedactGoroutines == {1, 2}

\* a placeholder that does not depend on the value
newPlaceholder_NoHash(value, patternType) == FormatPlaceholder(patternType, "0000")

\* getPlaceholder after a miss: fmt.Sprintf("[%s:%s]", patternType, hash)
\* of r.hashValue(value)
newPlaceholder(value, patternType) == FormatPlaceholder(patternType, hashValue(value))

\* a goroutine that is not in a call
GoIdleState == [pc |-> "idle", text |-> <<>>, k |-> 0, i |-> 0, subs |-> {}]

\* the matches that Redact's loops still have to replace: (k, i) with the
\* k-th pattern matching the i-th word, at or after the position of g
PendingMatches(g) ==
    {m \in (1..Len(redactor.patterns)) \X (1..Len(rgo[g].text)) :
        /\ (m[1] > rgo[g].k \/ (m[1] = rgo[g].k /\ m[2] >= rgo[g].i))
        /\ rgo[g].text[m[2]] \in SensitiveValues
        /\ PatternOf(rgo[g].text[m[2]]) = redactor.patterns[m[1]]}

\* the first of them, in the order of Redact's loops
NextMatch(g) ==
    CHOOSE m \in PendingMatches(g) :
        \A n \in PendingMatches(g) : m[1] < n[1] \/ (m[1] = n[1] /\ m[2] <= n[2])

RedactGoInit ==
    /\ redactor \in [enabled : BOOLEAN, patterns : PatternLists]
    /\ hashMap = <<>>
    /\ rhist = [calls |-> 0, subs |-> {}, lastIn |-> <<>>, lastOut |-> <<>>]
    /\ rgo = [g \in RedactGoroutines |-> GoIdleState]

\* goroutine g calls Redact(text)
GoRedact(g) ==
    /\ rgo[g].pc = "idle"
    /\ rhist.calls < MaxRedactCalls
    /\ \E text \in Texts :
          /\ rhist' = [rhist EXCEPT !.calls = @ + 1]
          /\ rgo' = [rgo EXCEPT ![g] =
                        IF ~redactor.enabled \/ Len(redactor.patterns) = 0
                        THEN GoIdleState
                        ELSE [pc |-> "lookup", text |-> text, k |-> 1, i |-> 1,
                              subs |-> {}]]
    /\ UNCHANGED <<redactor, hashMap>>
    /\ UNCHANGED nonRedactGoVars

\* goroutine g's Redact returns when no match is left; otherwise
\* getPlaceholder looks the next match up under the read lock and either
\* returns the stored placeholder or goes on to make one
GoLookup(g) ==
    /\ rgo[g].pc = "lookup"
    /\ IF PendingMatches(g) = {}
       THEN rgo' = [rgo EXCEPT ![g] = GoIdleState]
       ELSE LET m     == NextMatch(g)
                value == rgo[g].text[m[2]]
            IN /\ rgo' = [rgo EXCEPT ![g] =
                            IF value \in DOMAIN hashMap
                            THEN [pc |-> "lookup",
                                  text |-> [rgo[g].text EXCEPT ![m[2]] = hashMap[value]],
                                  k |-> m[1], i |-> m[2] + 1,
                                  subs |-> rgo[g].subs \cup
                                     {[pattern |-> redactor.patterns[m[1]],
                                       value |-> value, placeholder |-> hashMap[value],
                                       cached |-> TRUE]}]
                            ELSE [rgo[g] EXCEPT !.pc = "store", !.k = m[1], !.i = m[2]]]
    /\ UNCHANGED <<redactor, hashMap, rhist>>
    /\ UNCHANGED nonRedactGoVars

\* getPlaceholder after the miss: the new placeholder is stored under the
\* write lock and returned
GoStore(g) ==
    /\ rgo[g].pc = "store"
    /\ LET value       == rgo[g].text[rgo[g].i]
           pattern     == redactor.patterns[rgo[g].k]
           placeholder == newPlaceholder(value, PatternType[pattern])
       IN /\ hashMap' = [x \in DOMAIN hashMap \cup {value} |->
                            IF x = value THEN placeholder ELSE hashMap[x]]
          /\ rgo' = [rgo EXCEPT ![g] =
                        [pc |-> "lookup",
                         text |-> [rgo[g].text EXCEPT ![rgo[g].i] = placeholder],
                         k |-> rgo[g].k, i |-> rgo[g].i + 1,
                         subs |-> rgo[g].subs \cup
                            {[pattern |-> pattern, value |-> value,
                              placeholder |-> placeholder, cached |-> FALSE]}]]
    /\ UNCHANGED <<redactor, rhist>>
    /\ UNCHANGED nonRedactGoVars

\* a goroutine calls Reset while the others are where they are
GoReset ==
    /\ rhist.calls < MaxRedactCalls
    /\ hashMap' = <<>>
    /\ rhist' = [rhist EXCEPT !.calls = @ + 1]
    /\ UNCHANGED <<redactor, rgo>>
    /\ UNCHANGED nonRedactGoVars

RedactGoNext ==
    \/ \E g \in RedactGoroutines : GoRedact(g) \/ GoLookup(g) \/ GoStore(g)
    \/ GoReset

RedactGoIdle == rgo = <<>>

----------------------------------------------------------------------------
(* The compressor: internal/preprocess/compress.go.                        *)
(* Messages, patterns and examples are token lists, rendered with single   *)
(* spaces; the summary is the text the code builds, byte for byte.         *)

DefaultTokenLimit == 8000

charsPerToken == 4

\* writeTemplates' reservedTokens
reservedTokens == 200

\* formatTemplate: examples longer than 120 bytes are cut to 117 and "..."
MaxExampleLen == 120

TruncatedLen == 117

\* the zero time.Time; the other times are seconds after 2024-01-01T00:00:00Z
ZeroTime == 0

\* how many entries and templates the large input of Compress has
BulkSize == 560

\* the same sequence, with its elements evaluated once
AsTuple(f) == f \o <<>>

SetMin(S) == CHOOSE x \in S : \A y \in S : x <= y

SetMax(S) == CHOOSE x \in S : \A y \in S : y <= x

\* estimateTokens
estimateTokens(text) == Len(text) \div charsPerToken

\* LogLevel.String
LevelString(level) ==
    CASE level = LevelDebug -> "DEBUG"
      [] level = LevelInfo  -> "INFO"
      [] level = LevelWarn  -> "WARN"
      [] level = LevelError -> "ERROR"
      [] level = LevelFatal -> "FATAL"
      [] OTHER -> "UNKNOWN"

\* strings.Join(tokens[i..], " ")
RECURSIVE JoinFrom(_, _)
JoinFrom(tokens, i) ==
    IF i > Len(tokens) THEN ""
    ELSE IF i = Len(tokens) THEN tokens[i]
    ELSE tokens[i] \o " " \o JoinFrom(tokens, i + 1)

Join(tokens) == JoinFrom(tokens, 1)

\* Time.Format(time.RFC3339) of the model's non-zero times (1..9)
FormatTime(t) == "2024-01-01T00:00:0" \o ToString(t) \o "Z"

\* NewCompressor
NewCompressor(tokenLimit) ==
    [tokenLimit |-> IF tokenLimit <= 0 THEN DefaultTokenLimit ELSE tokenLimit]

\* calculateTimeRange
calculateTimeRange(entries) ==
    LET ts == {entries[i].Timestamp : i \in 1..Len(entries)} \ {ZeroTime}
    IN [Start |-> IF ts = {} THEN ZeroTime ELSE SetMin(ts),
        End   |-> IF ts = {} THEN ZeroTime ELSE SetMax(ts)]

\* matchesTemplate: strings.Fields of the message against strings.Fields of
\* the template's pattern
matchesTemplate(message, template) ==
    /\ Len(message) = Len(template.Pattern)
    /\ \A i \in 1..Len(message) :
          template.Pattern[i] = Wild \/ template.Pattern[i] = message[i]

\* createTemplateSummaries' inner loop with its break: the position of the
\* first template that matches the message, 0 when none does
FirstMatch(message, drainTemplates) ==
    LET S == {k \in 1..Len(drainTemplates) : matchesTemplate(message, drainTemplates[k])}
    IN IF S = {} THEN 0 ELSE SetMin(S)

\* createTemplateSummaries. hLevels is a history field: the levels of the
\* entries collected under the template's ID.
createTemplateSummaries(entries, drainTemplates) ==
    LET first == AsTuple([i \in 1..Len(entries) |->
                             FirstMatch(entries[i].Message, drainTemplates)])
        \* templateEntries[id], as positions in entries
        templateEntries(id) ==
            {i \in 1..Len(entries) : first[i] # 0 /\ drainTemplates[first[i]].ID = id}
        summary(k) ==
            LET template == drainTemplates[k]
                es == templateEntries(template.ID)
                \* maxLevel starts at LevelUnknown and is raised by every
                \* entry whose Level is greater
                maxLevel == SetMax({LevelUnknown} \cup {entries[i].Level : i \in es})
                seen == {entries[i].Timestamp : i \in es} \ {ZeroTime}
            IN [Pattern   |-> template.Pattern,
                Count     |-> template.Count,
                Examples  |-> template.Examples,
                Level     |-> maxLevel,
                FirstSeen |-> IF seen = {} THEN ZeroTime ELSE SetMin(seen),
                LastSeen  |-> IF seen = {} THEN ZeroTime ELSE SetMax(seen),
                hLevels   |-> {entries[i].Level : i \in es},
                hEmpty    |-> es = {}]
        all == AsTuple([k \in 1..Len(drainTemplates) |-> summary(k)])
        kept == SelectSeq(all, LAMBDA t : ~t.hEmpty)
    IN AsTuple([n \in 1..Len(kept) |->
                  [f \in DOMAIN kept[n] \ {"hEmpty"} |-> kept[n][f]]])

\* the exchange sort of prioritizeTemplates and GetTemplates, on elements
\* [key, val] with key the score (or the Count) of val:
\*     for i := 0; i < len(s)-1; i++ { for j := i + 1; j < len(s); j++ {
\*         if key(s[j]) > key(s[i]) { s[i], s[j] = s[j], s[i] } } }
\* Each loop runs its range in order, one half after the other.
SwapIfGreater(s, i, j) ==
    IF s[j].key > s[i].key THEN [s EXCEPT ![i] = s[j], ![j] = s[i]] ELSE s

RECURSIVE SortInner(_, _, _, _)
SortInner(s, i, lo, hi) ==
    IF lo > hi THEN s
    ELSE IF lo = hi THEN SwapIfGreater(s, i, lo)
    ELSE LET mid  == (lo + hi) \div 2
             left == SortInner(s, i, lo, mid)
         IN IF mid + 1 > Len(left) THEN left ELSE SortInner(left, i, mid + 1, hi)

RECURSIVE SortOuter(_, _, _)
SortOuter(s, lo, hi) ==
    IF lo > hi THEN s
    ELSE IF lo = hi THEN SortInner(s, lo, lo + 1, Len(s))
    ELSE LET mid  == (lo + hi) \div 2
             left == SortOuter(s, lo, mid)
         IN IF mid + 1 > Len(left) - 1 THEN left ELSE SortOuter(left, mid + 1, hi)

ExchangeSort(keyed) ==
    LET sorted == SortOuter(keyed, 1, Len(keyed) - 1)
    IN AsTuple([k \in 1..Len(sorted) |-> sorted[k].val])

\* templatePriorityScore
templatePriorityScore(t) == t.Level * 1000 + t.Count

\* prioritizeTemplates
prioritizeTemplates(summaries) ==
    ExchangeSort(AsTuple([k \in 1..Len(summaries) |->
                            [key |-> templatePriorityScore(summaries[k]),
                             val |-> summaries[k]]]))

\* formatTemplate's loop over t.Examples, from the i-th
RECURSIVE formatExamples(_, _)
formatExamples(examples, i) ==
    IF i > Len(examples) THEN ""
    ELSE LET ex0 == Join(examples[i])
             ex  == IF Len(ex0) > MaxExampleLen
                    THEN SubSeq(ex0, 1, TruncatedLen) \o "..."
                    ELSE ex0
         IN "    - " \o ex \o "\n" \o formatExamples(examples, i + 1)

\* formatTemplate
formatTemplate(t) ==
    "[" \o LevelString(t.Level) \o "] " \o Join(t.Pattern)
        \o " (" \o ToString(t.Count) \o " occurrences)\n"
        \o (IF Len(t.Examples) > 0
            THEN "  Examples:\n" \o formatExamples(t.Examples, 1)
            ELSE "")

\* writeHeader
writeHeader(timeRange, totalLines, totalTemplates, redactedCount) ==
    "=== Log Analysis Summary ===\n\n"
        \o (IF timeRange.Start # ZeroTime
            THEN "Time Range: " \o FormatTime(timeRange.Start) \o " to "
                     \o FormatTime(timeRange.End) \o "\n"
            ELSE "")
        \o "Total Lines: " \o ToString(totalLines) \o "\n"
        \o "Unique Patterns: " \o ToString(totalTemplates) \o "\n"
        \o (IF redactedCount > 0
            THEN "Sensitive Values Redacted: " \o ToString(redactedCount) \o "\n"
            ELSE "")
        \o "\n"

\* writeFooter's line
writeFooter(tokenCount, tokenLimit) ==
    "Token Count: ~" \o ToString(tokenCount) \o " / " \o ToString(tokenLimit) \o "\n"

\* one pass of a section's loop in writeTemplates, templateStr being
\* formatTemplate(t); stopped records the break
SectionAdd(acc, t, templateStr, availableTokens) ==
    IF acc.currentTokens + estimateTokens(templateStr) > availableTokens
    THEN [acc EXCEPT !.stopped = TRUE]
    ELSE [sb            |-> acc.sb \o templateStr,
          currentTokens |-> acc.currentTokens + estimateTokens(templateStr),
          included      |-> Append(acc.included, t),
          stopped       |-> FALSE]

SectionStep(acc, t, availableTokens) ==
    SectionAdd(acc, t, formatTemplate(t), availableTokens)

\* a section's loop over list[lo..hi], in order, one half after the other
RECURSIVE SectionLoop(_, _, _, _, _)
SectionLoop(acc, list, lo, hi, availableTokens) ==
    IF lo > hi THEN acc
    ELSE IF lo = hi THEN SectionStep(acc, list[lo], availableTokens)
    ELSE LET mid  == (lo + hi) \div 2
             left == SectionLoop(acc, list, lo, mid, availableTokens)
         IN IF left.stopped THEN left
            ELSE SectionLoop(left, list, mid + 1, hi, availableTokens)

\* the end of a section: "\n"
CloseSection(end) ==
    [sb |-> end.sb \o "\n", currentTokens |-> end.currentTokens,
     included |-> end.included]

\* a section of writeTemplates: its title, its templates while they fit, "\n"
writeSection(acc, title, list, availableTokens) ==
    CloseSection(SectionLoop([sb |-> acc.sb \o title,
                              currentTokens |-> acc.currentTokens,
                              included |-> acc.included, stopped |-> FALSE],
                             list, 1, Len(list), availableTokens))

\* "Always try to include all errors"
ErrorSection(acc, errors, availableTokens) ==
    IF Len(errors) > 0
    THEN writeSection(acc, "=== Error Summary ===\n", errors, availableTokens)
    ELSE acc

\* "Include warnings if space permits"
WarningSection(acc, warnings, availableTokens) ==
    IF Len(warnings) > 0 /\ acc.currentTokens < availableTokens
    THEN writeSection(acc, "=== Warning Summary ===\n", warnings, availableTokens)
    ELSE acc

\* "Include other templates (INFO, DEBUG) if space permits"
OtherSection(acc, others, availableTokens) ==
    IF Len(others) > 0 /\ acc.currentTokens < availableTokens
    THEN writeSection(acc, "=== Top Info Patterns ===\n", others, availableTokens)
    ELSE acc

\* writeTemplates: the text after it and the templates it included
writeTemplates(sb, summaries, tokenLimit) ==
    OtherSection(
        WarningSection(
            ErrorSection([sb |-> sb, currentTokens |-> estimateTokens(sb),
                          included |-> <<>>],
                         SelectSeq(summaries,
                                   LAMBDA t : t.Level \in {LevelFatal, LevelError}),
                         tokenLimit - reservedTokens),
            SelectSeq(summaries, LAMBDA t : t.Level = LevelWarn),
            tokenLimit - reservedTokens),
        SelectSeq(summaries,
                  LAMBDA t : t.Level \notin {LevelFatal, LevelError, LevelWarn}),
        tokenLimit - reservedTokens)

\* the CompressedOutput of buildOutput, w being what writeTemplates returned;
\* writeFooter runs while output.TokenCount is still 0
FinishOutput(entries, summaries, timeRange, redactedCount, tokenLimit, included, summary) ==
    [Summary        |-> summary,
     TimeRange      |-> timeRange,
     TotalLines     |-> Len(entries),
     TotalTemplates |-> Len(summaries),
     Templates      |-> included,
     RedactedCount  |-> redactedCount,
     Metadata       |-> [included_templates |-> Len(included),
                         compression_ratio  |-> <<Len(entries), Len(included) + 1>>],
     TokenCount     |-> estimateTokens(summary),
     TokenLimit     |-> tokenLimit]

WriteFooterAfter(entries, summaries, timeRange, redactedCount, tokenLimit, w) ==
    FinishOutput(entries, summaries, timeRange, redactedCount, tokenLimit,
                 w.included, w.sb \o writeFooter(0, tokenLimit))

\* buildOutput
buildOutput(entries, summaries, timeRange, redactedCount, tokenLimit) ==
    WriteFooterAfter(entries, summaries, timeRange, redactedCount, tokenLimit,
        writeTemplates(writeHeader(timeRange, Len(entries), Len(summaries), redactedCount),
                       summaries, tokenLimit))

\* buildOutput on the prioritized summaries
BuildPrioritized(c, entries, prioritized, redactedCount) ==
    [output |-> buildOutput(entries, prioritized, calculateTimeRange(entries),
                            redactedCount, c.tokenLimit),
     considered |-> prioritized]

\* Compress from prioritizeTemplates on
CompressSummaries(c, entries, templateSummaries, redactedCount) ==
    BuildPrioritized(c, entries, prioritizeTemplates(templateSummaries), redactedCount)

\* Compress: the output, and the summaries buildOutput was given
CompressSteps(c, entries, drainTemplates, redactedCount) ==
    IF Len(entries) = 0
    THEN [output |-> [Summary        |-> "No log entries to analyze.",
                      TimeRange      |-> [Start |-> ZeroTime, End |-> ZeroTime],
                      TotalLines     |-> 0,
                      TotalTemplates |-> 0,
                      Templates      |-> <<>>,
                      RedactedCount  |-> 0,
                      Metadata       |-> <<>>,
                      TokenCount     |-> 0,
                      TokenLimit     |-> c.tokenLimit],
          considered |-> <<>>]
    ELSE CompressSummaries(c, entries,
                           createTemplateSummaries(entries, drainTemplates),
                           redactedCount)

Compress(c, entries, drainTemplates, redactedCount) ==
    CompressSteps(c, entries, drainTemplates, redactedCount).output

\* ---- the calls the model makes ----

LogEntry(message, level, timestamp) ==
    [Raw |-> message, Message |-> message, Level |-> level, Timestamp |-> timestamp]

\* a token of 120 bytes
LongToken ==
    LET x10 == "xxxxxxxxxx" IN
    x10 \o x10 \o x10 \o x10 \o x10 \o x10 \o x10 \o x10 \o x10 \o x10 \o x10 \o x10

EntryPool ==
    { LogEntry(m, l, t) : m \in { <<"a", "b">>, <<"a", "c">> },
                          l \in {LevelInfo, LevelError}, t \in {ZeroTime, 1} }
      \cup { LogEntry(<<LongToken>>, LevelFatal, ZeroTime) }

TemplatePool ==
    { [ID |-> 1, Pattern |-> <<"a", "b">>, Count |-> 1, Examples |-> <<>>],
      [ID |-> 2, Pattern |-> <<"a", Wild>>, Count |-> 2,
       Examples |-> << <<"a", "c">> >>],
      [ID |-> 3, Pattern |-> <<LongToken>>, Count |-> 5, Examples |-> <<>>] }

SeqsUpTo2(S) == {<<>>} \cup {<<x>> : x \in S} \cup {<<x, y>> : x \in S, y \in S}

TemplateSummary(pattern, count, level, examples) ==
    [Pattern |-> pattern, Count |-> count, Examples |-> examples, Level |-> level,
     FirstSeen |-> ZeroTime, LastSeen |-> ZeroTime, hLevels |-> {level}]

\* Compress(entries, templates, redactedCount) on short lists
CompressInputs ==
    [kind : {"compress"}, entries : SeqsUpTo2(EntryPool),
     templates : SeqsUpTo2(TemplatePool), redactedCount : {0, 2}]

\* Compress on BulkSize entries with one template each, no examples
BulkInput ==
    [kind |-> "compress",
     entries |-> AsTuple([i \in 1..BulkSize |->
                            LogEntry(<<ToString(1000 + i)>>, LevelInfo, ZeroTime)]),
     templates |-> AsTuple([i \in 1..BulkSize |->
                              [ID |-> i, Pattern |-> <<ToString(1000 + i)>>,
                               Count |-> 1, Examples |-> <<>>]]),
     redactedCount |-> 0]

\* the token limit that the header and the templates of BulkInput fill exactly
BulkTokenLimit ==
    reservedTokens
      + estimateTokens(writeHeader([Start |-> ZeroTime, End |-> ZeroTime],
                                   BulkSize, BulkSize, 0))
      + BulkSize * estimateTokens(formatTemplate(
                       TemplateSummary(<<ToString(1000 + 1)>>, 1, LevelUnknown, <<>>)))

\* the limits given to NewCompressor: 0 asks for the default
TokenLimits == {0, 240}

CompressInit ==
    /\ \/ /\ cin \in CompressInputs
          /\ \E limit \in TokenLimits : compressor = NewCompressor(limit)
       \/ /\ cin = BulkInput
          /\ compressor = NewCompressor(BulkTokenLimit)
    /\ cout = <<>>
    /\ chist = [done |-> FALSE, considered |-> <<>>]

\* the call returns r.output
CompressReturns(r) ==
    /\ cout' = r.output
    /\ chist' = [done |-> TRUE, considered |-> r.considered]

\* Compress(entries, templates, redactedCount)
CompressCall ==
    /\ ~chist.done
    /\ cin.kind = "compress"
    /\ CompressReturns(CompressSteps(compressor, cin.entries, cin.templates,
                                     cin.redactedCount))
    /\ UNCHANGED <<compressor, cin>>
    /\ UNCHANGED nonCompressVars

CompressNext == CompressCall

CompressIdle == compressor = <<>> /\ cin = <<>> /\ cout = <<>> /\ chist = <<>>

----------------------------------------------------------------------------
(* The preprocessor: Preprocessor.Process, the pipeline of redaction,      *)
(* Drain extraction and compression.                                       *)

\* how many fresh preprocessors process the same entries
MaxRuns == 2

\* RedactAndCount's loop over r.patterns, from the k-th
RECURSIVE RedactAndCountFrom(_, _, _, _, _)
RedactAndCountFrom(map, text, patterns, k, count) ==
    IF k > Len(patterns) THEN [map |-> map, text |-> text, count |-> count]
    ELSE LET matches == {i \in 1..Len(text) :
                            text[i] \in SensitiveValues /\ PatternOf(text[i]) = patterns[k]}
             r == redactPattern(map, text, patterns[k], 1, {})
         IN RedactAndCountFrom(r.map, r.text, patterns, k + 1, count + Cardinality(matches))

\* RedactAndCount
RedactAndCount(rd, map, text) ==
    IF ~rd.enabled \/ Len(rd.patterns) = 0
    THEN [map |-> map, text |-> text, count |-> 0]
    ELSE RedactAndCountFrom(map, text, rd.patterns, 1, 0)

\* redactEntries' loop, from the i-th entry
RECURSIVE redactEntriesFrom(_, _, _, _, _, _)
redactEntriesFrom(rd, map, entries, i, redacted, total) ==
    IF i > Len(entries) THEN [entries |-> redacted, count |-> total]
    ELSE LET m == RedactAndCount(rd, map, entries[i].Message)
             w == IF entries[i].Raw # entries[i].Message
                  THEN RedactAndCount(rd, m.map, entries[i].Raw)
                  ELSE [map |-> m.map, text |-> entries[i].Raw, count |-> 0]
         IN redactEntriesFrom(rd, w.map, entries, i + 1,
                Append(redacted, [entries[i] EXCEPT !.Message = m.text, !.Raw = w.text]),
                total + m.count + w.count)

\* extractTemplates' loop, from the i-th entry: d.templates afterwards
RECURSIVE extractFrom(_, _, _, _)
extractFrom(tree, tmpls, entries, i) ==
    IF i > Len(entries) THEN tmpls
    ELSE IF Len(entries[i].Message) = 0 THEN extractFrom(tree, tmpls, entries, i + 1)
    ELSE LET r == ExtractOne(tree, tmpls, entries[i].Message)
         IN extractFrom(r.root, r.templates, entries, i + 1)

\* the orders in which a range over a map of n templates can visit them
IterationOrders(n) == {p \in [1..n -> 1..n] : \A i, j \in 1..n : p[i] = p[j] => i = j}

\* GetTemplates: the templates in the order the map was ranged over, then
\* the exchange sort by Count
GetTemplates(tmpls, order) ==
    ExchangeSort(AsTuple([k \in 1..Len(tmpls) |->
                            [key |-> tmpls[order[k]].Count,
                             val |-> [ID |-> order[k], Pattern |-> tmpls[order[k]].Tokens,
                                      Count |-> tmpls[order[k]].Count,
                                      Examples |-> tmpls[order[k]].Examples]]]))

\* New(): the redactor; the extractor is NewDrainExtractor(0, 0, 0)
NewPreprocessorRedactor == [enabled |-> TRUE, patterns |-> <<"ipv4", "email">>]

\* Process, stage 2 on the redacted entries r.entries: d.templates
ExtractStage(r) ==
    [entries |-> r.entries, count |-> r.count,
     templates |-> extractFrom(EmptyTree, <<>>, r.entries, 1)]

\* Process up to GetTemplates; without entries it goes straight to Compress
ProcessStages(entries) ==
    IF Len(entries) = 0
    THEN [entries |-> entries, count |-> 0, templates |-> <<>>]
    ELSE ExtractStage(redactEntriesFrom(NewPreprocessorRedactor, <<>>, entries, 1, <<>>, 0))

\* Process from GetTemplates on, with the order it ranged over d.templates
ProcessCompress(st, order) ==
    Compress(NewCompressor(DefaultTokenLimit), st.entries,
             GetTemplates(st.templates, order), st.count)

ProcessEntryPool ==
    { LogEntry(<<"a">>, LevelInfo, ZeroTime),
      LogEntry(<<"b">>, LevelInfo, 1),
      [LogEntry(<<"a", "10.0.0.1">>, LevelError, 2) EXCEPT !.Raw = <<"E", "a", "10.0.0.1">>],
      LogEntry(<<"a", "7">>, LevelWarn, ZeroTime) }

ProcessInputs ==
    SeqsUpTo2(ProcessEntryPool)
      \cup {<<x, y, z>> : x \in ProcessEntryPool, y \in ProcessEntryPool,
                          z \in ProcessEntryPool}

ProcessInit ==
    /\ pentries \in ProcessInputs
    /\ pruns = <<>>

\* the run returns, GetTemplates having ranged over d.templates in some order
ProcessReturns(st) ==
    \E order \in IterationOrders(Len(st.templates)) :
        pruns' = Append(pruns, ProcessCompress(st, order))

\* Process(entries) on a fresh Preprocessor
ProcessCall ==
    /\ Len(pruns) < MaxRuns
    /\ ProcessReturns(ProcessStages(pentries))
    /\ UNCHANGED pentries
    /\ UNCHANGED nonProcessVars

ProcessNext == ProcessCall

ProcessIdle == pentries = <<>> /\ pruns = <<>>

----------------------------------------------------------------------------
(* The stream parser: Parser.ParseStream (internal/parser/parser.go).      *)
(* The reader's content is a sequence of bytes; every line is far shorter  *)
(* than the scanner's 1 MB buffer. The callback fn fails on its            *)
(* psFailAt-th call, never when psFailAt is 0.                             *)

\* the longest stream
MaxStreamLen == 5

StreamBytes == {"a", " ", LF, CR}

RECURSIVE SeqsOfLen(_, _)
SeqsOfLen(S, n) ==
    IF n = 0 THEN {<<>>}
    ELSE {Append(s, x) : s \in SeqsOfLen(S, n - 1), x \in S}

Streams == UNION {SeqsOfLen(StreamBytes, n) : n \in 0..MaxStreamLen}

\* the calls of fn that can be the failing one
FailAts == {0, 1, 2}

ParseInit ==
    /\ psStream \in Streams
    /\ psFailAt \in FailAts
    /\ psNext = 1
    /\ psLineNum = 0
    /\ psCalls = <<>>
    /\ psResult = "running"

\* the tokens scanner.Scan() delivers
psTokens == ScanLines(psStream, 1)

\* a pass of the loop on a blank line that does not count the line
ScanBlank_NoLineCount ==
    /\ psResult = "running"
    /\ psNext <= Len(psTokens)
    /\ IsBlank(psTokens[psNext].text)
    /\ psNext' = psNext + 1
    /\ UNCHANGED <<psStream, psFailAt, psLineNum, psCalls, psResult>>
    /\ UNCHANGED nonParseVars

\* a pass of the loop on a blank line: lineNum++ and continue
ScanBlank ==
    /\ psResult = "running"
    /\ psNext <= Len(psTokens)
    /\ IsBlank(psTokens[psNext].text)
    /\ psNext' = psNext + 1
    /\ psLineNum' = psLineNum + 1
    /\ UNCHANGED <<psStream, psFailAt, psCalls, psResult>>
    /\ UNCHANGED nonParseVars

\* a pass of the loop on a non-blank line, fn returning nil
ScanEntry ==
    /\ psResult = "running"
    /\ psNext <= Len(psTokens)
    /\ ~IsBlank(psTokens[psNext].text)
    /\ Len(psCalls) + 1 # psFailAt
    /\ psNext' = psNext + 1
    /\ psLineNum' = psLineNum + 1
    /\ psCalls' = Append(psCalls, parseLine(psTokens[psNext].text, psLineNum + 1,
                                            NoFile, psTokens[psNext].pos))
    /\ UNCHANGED <<psStream, psFailAt, psResult>>
    /\ UNCHANGED nonParseVars

\* a pass of the loop on a non-blank line, fn returning an error: ParseStream
\* returns it
ScanEntryFails ==
    /\ psResult = "running"
    /\ psNext <= Len(psTokens)
    /\ ~IsBlank(psTokens[psNext].text)
    /\ Len(psCalls) + 1 = psFailAt
    /\ psNext' = psNext + 1
    /\ psLineNum' = psLineNum + 1
    /\ psCalls' = Append(psCalls, parseLine(psTokens[psNext].text, psLineNum + 1,
                                            NoFile, psTokens[psNext].pos))
    /\ psResult' = "fn error"
    /\ UNCHANGED <<psStream, psFailAt>>
    /\ UNCHANGED nonParseVars

\* scanner.Scan() returns false at the end of the stream: return scanner.Err()
ScanEnd ==
    /\ psResult = "running"
    /\ psNext > Len(psTokens)
    /\ psResult' = "nil"
    /\ UNCHANGED <<psStream, psFailAt, psNext, psLineNum, psCalls>>
    /\ UNCHANGED nonParseVars

ParseNext == ScanBlank \/ ScanEntry \/ ScanEntryFails \/ ScanEnd

ParseIdle ==
    /\ psStream = <<>> /\ psFailAt = 0 /\ psNext = 0 /\ psLineNum = 0
    /\ psCalls = <<>> /\ psResult = "idle"

----------------------------------------------------------------------------
(* search's context emitter: contextEmitter.process (cmd/search.go).       *)
(* An entry is its line number and whether the search filter matches it;   *)
(* the output is the entries handed to emit, with a Separator entry where  *)
(* emitSeparator was called.                                               *)

\* the longest input the parser hands to the emitter
MaxEntries == 6

\* the context sizes (--context) of the model
Contexts == {0, 1, 2}

\* the distance between the line numbers of successive entries: 2 when a
\* blank line lies after every line
Strides == {1, 2}

\* what the "--" line is in emOut; no entry has line 0
Separator == [Line |-> 0, Match |-> FALSE]

MatchFlags == UNION { [1..n -> BOOLEAN] : n \in 0..MaxEntries }

\* the matched branch's loop over c.before: the buffered entries not emitted yet
EmitBefore_NoSkip(before, last) == before

EmitBefore(before, last) ==
    LET notYet(prev) == prev.Line > last
    IN SelectSeq(before, notYet)

\* the entry itself, unless its line was emitted already
EmitEntry(entry, last) == IF entry.Line > last THEN <<entry>> ELSE <<>>

LastLine(emitted, last) == IF emitted = <<>> THEN last ELSE emitted[Len(emitted)].Line

\* the end of process: the entry joins c.before, which keeps the last
\* c.context entries
PushBefore(c, entry) ==
    IF c.context > 0
    THEN LET b == Append(c.before, entry)
         IN [c EXCEPT !.before = IF Len(b) > c.context THEN Tail(b) ELSE b]
    ELSE c

\* process with c.context = 0
processNoContext(c, entry) ==
    IF entry.Match
    THEN [c |-> [c EXCEPT !.lastEmittedLine = entry.Line, !.hasOutput = TRUE],
          out |-> <<entry>>]
    ELSE [c |-> c, out |-> <<>>]

\* process, the matched branch
processMatched(c, entry) ==
    LET sep    == IF ~c.inContext /\ c.hasOutput /\ c.separator THEN <<Separator>> ELSE <<>>
        prevs  == EmitBefore(c.before, c.lastEmittedLine)
        last1  == LastLine(prevs, c.lastEmittedLine)
        self   == EmitEntry(entry, last1)
        last2  == LastLine(self, last1)
    IN [c |-> PushBefore([c EXCEPT !.lastEmittedLine = last2,
                                   !.hasOutput = @ \/ (prevs \o self) # <<>>,
                                   !.inContext = TRUE,
                                   !.afterRemaining = c.context], entry),
        out |-> sep \o prevs \o self]

\* process, an entry that does not match while c.inContext
processInContext(c, entry) ==
    LET self == EmitEntry(entry, c.lastEmittedLine)
    IN [c |-> PushBefore([c EXCEPT !.lastEmittedLine = LastLine(self, @),
                                   !.hasOutput = @ \/ self # <<>>,
                                   !.afterRemaining = @ - 1,
                                   !.inContext = ~(c.afterRemaining - 1 <= 0)], entry),
        out |-> self]

\* contextEmitter.process: the emitter afterwards and what it wrote
process(c, entry) ==
    IF c.context = 0 THEN processNoContext(c, entry)
    ELSE IF entry.Match THEN processMatched(c, entry)
    ELSE IF c.inContext THEN processInContext(c, entry)
    ELSE [c |-> PushBefore(c, entry), out |-> <<>>]

EmitInit ==
    /\ \E flags \in MatchFlags, stride \in Strides :
          emInput = [i \in 1..Len(flags) |-> [Line |-> stride * i, Match |-> flags[i]]]
    /\ \E n \in Contexts, sep \in BOOLEAN :
          emitter = [context |-> n, separator |-> sep, lastEmittedLine |-> 0,
                     afterRemaining |-> 0, inContext |-> FALSE, hasOutput |-> FALSE,
                     before |-> <<>>]
    /\ emNext = 1
    /\ emOut = <<>>

\* ParseFileStream's callback: emitter.process(entry) on the next entry
EmitterProcess ==
    /\ emNext <= Len(emInput)
    /\ LET r == process(emitter, emInput[emNext])
       IN /\ emitter' = r.c
          /\ emOut' = emOut \o r.out
    /\ emNext' = emNext + 1
    /\ UNCHANGED emInput
    /\ UNCHANGED nonEmitVars

EmitNext == EmitterProcess

EmitIdle == emitter = <<>> /\ emInput = <<>> /\ emNext = 0 /\ emOut = <<>>

----------------------------------------------------------------------------
(* The analyzer: GroupBy and AnalyzeByWindow (internal/analyzer).          *)
(* A time is a whole number of time units since the zero time, ZeroTime    *)
(* itself being "no timestamp"; a window is a positive number of units.    *)

\* the longest entry list given to the analyzer
MaxAnalyzed == 3

\* the latest timestamp of an entry
MaxTime == 5

\* the longest window
MaxWindow == 3

\* the entries of the model: the errors come from the source "app" with the
\* message "boom", the others have no source
AnalyzerEntries ==
    { [Timestamp |-> t, Level |-> l,
       Message |-> IF l = LevelError THEN "boom" ELSE "ok",
       Source |-> IF l = LevelError THEN "app" ELSE ""] :
      t \in ZeroTime..MaxTime, l \in {LevelInfo, LevelError} }

AnalyzerInputs == UNION { [1..n -> AnalyzerEntries] : n \in 0..MaxAnalyzed }

GroupFields == {"level", "message", "source", "host", ""}

TopNs == {1, 2}

\* a Truncate that leaves the time as it is
Truncate_None(t, d) == t

\* time.Time.Truncate(d) for d > 0: round t down to a multiple of d since the
\* zero time
Truncate(t, d) == t - (t % d)

\* a count as a percentage of total: the operands of the float division
Percent(count, total) == [num |-> count * 100, den |-> total]

\* GroupBy's switch: the key of entry e under field
GroupKey(e, field) ==
    CASE field = "level"   -> LevelString(e.Level)
      [] field = "message" -> e.Message
      [] field = "source"  -> IF e.Source = "" THEN "(unknown)" ELSE e.Source

\* GroupBy on a supported field: the groups in the order keys (an order the
\* range over the map and sort.Slice can produce), cut to topN
GroupsOf(entries, field, keys, topN) ==
    LET count(key) == Cardinality({i \in 1..Len(entries) : GroupKey(entries[i], field) = key})
        all == [k \in 1..Len(keys) |->
                  [Key |-> keys[k], Count |-> count(keys[k]),
                   Percent |-> Percent(count(keys[k]), Len(entries))]]
    IN IF Len(all) > topN THEN SubSeq(all, 1, topN) ELSE all

\* the orders in which the sorted slice can hold the keys: by count
\* descending, keys of equal count in any order
KeyOrders(entries, field) ==
    LET keys == {GroupKey(entries[i], field) : i \in 1..Len(entries)}
        count(key) == Cardinality({i \in 1..Len(entries) : GroupKey(entries[i], field) = key})
    IN {o \in [1..Cardinality(keys) -> keys] :
           /\ \A i, j \in DOMAIN o : o[i] = o[j] => i = j
           /\ \A i, j \in DOMAIN o : i < j => count(o[i]) >= count(o[j])}

\* AnalyzeByWindow's loop from windowStart while current <= maxTime
RECURSIVE BuildWindows(_, _, _)
BuildWindows(current, maxTime, window) ==
    IF current > maxTime THEN <<>>
    ELSE << [Start |-> current, End |-> current + window] >>
         \o BuildWindows(current + window, maxTime, window)

\* the timestamped entries whose windowIdx is k (0-based) and within range
Assigned(entries, windowStart, window, k, n) ==
    {i \in 1..Len(entries) :
        /\ entries[i].Timestamp # ZeroTime
        /\ (entries[i].Timestamp - windowStart) \div window = k
        /\ k >= 0 /\ k < n}

\* the statistics of the windows, given who was assigned to each
WindowStats(entries, windows, windowStart, window) ==
    LET members(k) == Assigned(entries, windowStart, window, k - 1, Len(windows))
        count(k)   == Cardinality(members(k))
        errors(k)  == Cardinality({i \in members(k) : entries[i].Level >= LevelError})
        levels(k)  == {entries[i].Level : i \in members(k)}
    IN [k \in 1..Len(windows) |->
          [Start |-> windows[k].Start,
           End |-> windows[k].End,
           Count |-> count(k),
           LevelCounts |-> [l \in levels(k) |->
                              Cardinality({i \in members(k) : entries[i].Level = l})],
           ErrorCount |-> errors(k),
           ErrorPercent |-> IF count(k) > 0 THEN Percent(errors(k), count(k))
                            ELSE Percent(0, 1),
           ChangePercent |-> IF k > 1 /\ count(k - 1) > 0
                             THEN Percent(count(k) - count(k - 1), count(k - 1))
                             ELSE Percent(0, 1)]]

\* AnalyzeByWindow; the empty sequence stands for the nil slice
AnalyzeByWindow(entries, window) ==
    LET stamps == {entries[i].Timestamp : i \in 1..Len(entries)} \ {ZeroTime}
    IN IF Len(entries) = 0 \/ stamps = {} THEN <<>>
       ELSE LET windowStart == Truncate(SetMin(stamps), window)
            IN WindowStats(entries, BuildWindows(windowStart, SetMax(stamps), window),
                           windowStart, window)

\* ComputeStats without TopMessages; ErrorRate is kept as the operands of
\* the float division, errorCount over TotalLines
ComputeStats(entries) ==
    LET levels == {entries[i].Level : i \in 1..Len(entries)}
        counts == [l \in levels |-> Cardinality({i \in 1..Len(entries) : entries[i].Level = l})]
        LevelCount(l) == IF l \in levels THEN counts[l] ELSE 0
        stamps == {entries[i].Timestamp : i \in 1..Len(entries)} \ {ZeroTime}
    IN [TotalLines |-> Len(entries),
        LevelCounts |-> counts,
        FirstEntry |-> IF stamps = {} THEN ZeroTime ELSE SetMin(stamps),
        LastEntry |-> IF stamps = {} THEN ZeroTime ELSE SetMax(stamps),
        ErrorRate |-> [num |-> LevelCount(LevelError) + LevelCount(LevelFatal),
                       den |-> IF Len(entries) > 0 THEN Len(entries) ELSE 1]]

AnalyzeInit ==
    /\ anEntries \in AnalyzerInputs
    /\ anCall = [op |-> "none"]
    /\ anResult = <<>>

\* GroupBy(entries, field, topN)
GroupByCall ==
    /\ anCall.op = "none"
    /\ \E field \in GroupFields, topN \in TopNs :
          /\ anCall' = [op |-> "GroupBy", field |-> field, topN |-> topN]
          /\ IF Len(anEntries) = 0
             THEN anResult' = [groups |-> <<>>, err |-> "nil"]
             ELSE IF field \notin {"level", "message", "source"}
                  THEN anResult' = [groups |-> <<>>, err |-> "unsupported group-by field"]
                  ELSE \E keys \in KeyOrders(anEntries, field) :
                          anResult' = [groups |-> GroupsOf(anEntries, field, keys, topN),
                                       err |-> "nil"]
    /\ UNCHANGED anEntries
    /\ UNCHANGED nonAnalyzeVars

\* AnalyzeByWindow(entries, window), window > 0
AnalyzeByWindowCall ==
    /\ anCall.op = "none"
    /\ \E window \in 1..MaxWindow :
          /\ anCall' = [op |-> "AnalyzeByWindow", window |-> window]
          /\ anResult' = AnalyzeByWindow(anEntries, window)
    /\ UNCHANGED anEntries
    /\ UNCHANGED nonAnalyzeVars

AnalyzeNext == GroupByCall \/ AnalyzeByWindowCall

\* entries of every level, with an early timestamp or none
LevelEntries ==
    { [Timestamp |-> t, Level |-> l,
       Message |-> IF l \in {LevelError, LevelFatal} THEN "boom" ELSE "ok",
       Source |-> ""] :
      t \in ZeroTime..2,
      l \in {LevelDebug, LevelInfo, LevelWarn, LevelError, LevelFatal, LevelUnknown} }

\* AnalyzeByWindow on entries of every level
AnalyzeLevelsInit ==
    /\ anEntries \in UNION { [1..n -> LevelEntries] : n \in 0..MaxAnalyzed }
    /\ anCall = [op |-> "none"]
    /\ anResult = <<>>

AnalyzeLevelsNext == AnalyzeByWindowCall

AnalyzeIdle == anEntries = <<>> /\ anCall = <<>> /\ anResult = <<>>

----------------------------------------------------------------------------
(* The specifications: one component runs, the others stay idle.           *)

\* no concurrent model is running
GoIdle == RedactGoIdle /\ DrainGoIdle /\ ChatIdle

SpecTailInit ==
    TailInit /\ DrainIdle /\ RedactIdle /\ CompressIdle /\ ProcessIdle /\ ParseIdle
    /\ EmitIdle /\ AnalyzeIdle /\ GoIdle

SpecTail == SpecTailInit /\ [][TailNext]_vars

SpecDrainInit ==
    DrainInit /\ TailIdle /\ RedactIdle /\ CompressIdle /\ ProcessIdle /\ ParseIdle
    /\ EmitIdle /\ AnalyzeIdle /\ GoIdle

SpecDrain == SpecDrainInit /\ [][DrainNext]_vars

\* one extractor given MaxChildren + 1 distinct first tokens
SpecDrainFanOut == SpecDrainInit /\ [][DrainFanOutNext]_vars

SpecRedactInit ==
    RedactInit /\ TailIdle /\ DrainIdle /\ CompressIdle /\ ProcessIdle /\ ParseIdle
    /\ EmitIdle /\ AnalyzeIdle /\ GoIdle

SpecRedact == SpecRedactInit /\ [][RedactNext]_vars

SpecCompressInit ==
    CompressInit /\ TailIdle /\ DrainIdle /\ RedactIdle /\ ProcessIdle /\ ParseIdle
    /\ EmitIdle /\ AnalyzeIdle /\ GoIdle

SpecCompress == SpecCompressInit /\ [][CompressNext]_vars

SpecProcessInit ==
    ProcessInit /\ TailIdle /\ DrainIdle /\ RedactIdle /\ CompressIdle /\ ParseIdle
    /\ EmitIdle /\ AnalyzeIdle /\ GoIdle

SpecProcess == SpecProcessInit /\ [][ProcessNext]_vars

SpecParseInit ==
    ParseInit /\ TailIdle /\ DrainIdle /\ RedactIdle /\ CompressIdle /\ ProcessIdle
    /\ EmitIdle /\ AnalyzeIdle /\ GoIdle

SpecParse == SpecParseInit /\ [][ParseNext]_vars

SpecEmitInit ==
    EmitInit /\ TailIdle /\ DrainIdle /\ RedactIdle /\ CompressIdle /\ ProcessIdle
    /\ ParseIdle /\ AnalyzeIdle /\ GoIdle

SpecEmit == SpecEmitInit /\ [][EmitNext]_vars

SpecAnalyzeInit ==
    AnalyzeInit /\ TailIdle /\ DrainIdle /\ RedactIdle /\ CompressIdle /\ ProcessIdle
    /\ ParseIdle /\ EmitIdle /\ GoIdle

SpecAnalyze == SpecAnalyzeInit /\ [][AnalyzeNext]_vars

SpecAnalyzeLevelsInit ==
    AnalyzeLevelsInit /\ TailIdle /\ DrainIdle /\ RedactIdle /\ CompressIdle
    /\ ProcessIdle /\ ParseIdle /\ EmitIdle /\ GoIdle

SpecAnalyzeLevels == SpecAnalyzeLevelsInit /\ [][AnalyzeLevelsNext]_vars

SpecTailFaultsInit ==
    TailFaultsInit /\ DrainIdle /\ RedactIdle /\ CompressIdle /\ ProcessIdle
    /\ ParseIdle /\ EmitIdle /\ AnalyzeIdle /\ GoIdle

SpecTailFaults == SpecTailFaultsInit /\ [][TailFaultsNext]_vars

SpecRedactGoInit ==
    RedactGoInit /\ TailIdle /\ DrainIdle /\ CompressIdle /\ ProcessIdle /\ ParseIdle
    /\ EmitIdle /\ AnalyzeIdle /\ DrainGoIdle /\ ChatIdle

SpecDrainGoInit ==
    DrainGoInit /\ TailIdle /\ RedactIdle /\ CompressIdle /\ ProcessIdle /\ ParseIdle
    /\ EmitIdle /\ AnalyzeIdle /\ RedactGoIdle /\ ChatIdle

SpecDrainGo == SpecDrainGoInit /\ [][DrainGoNext]_vars

SpecChatInit ==
    ChatInit /\ TailIdle /\ DrainIdle /\ RedactIdle /\ CompressIdle /\ ProcessIdle
    /\ ParseIdle /\ EmitIdle /\ AnalyzeIdle /\ RedactGoIdle /\ DrainGoIdle

SpecChat == SpecChatInit /\ [][ChatNext]_vars

\* the producer goroutine, the backend and the adapter's goroutine are
\* scheduled as long as they can take a step, and a caller that has not
\* stopped goes on receiving
SpecChatFair ==
    SpecChat /\ WF_vars(ProducerNext) /\ WF_vars(AdapterNext) /\ WF_vars(Receive)

SpecRedactGo == SpecRedactGoInit /\ [][RedactGoNext]_vars

----------------------------------------------------------------------------
(* Claims about the tailer.                                                *)

\* the entries of the lines appended to inode 1 since openFile recorded the
\* file's size (hist.initLen) that pass the filters; their Line fields are
\* not meaningful
AppendedEntries == ScanEntries(ScanLines(fsFiles[1], hist.initLen + 1), 1)

EmittedFrom(f, p) == \E i \in 1..Len(output) : output[i].inode = f /\ output[i].pos = p

\* the follow loop is blocked in its select: nothing is pending
WatchIdle == tpc = "watch" /\ events = <<>> /\ werrors = 0 /\ ~cancelled

\* C1: in follow mode every line appended after Run started that passes the
\* filters is eventually handed to OutputFunc, as long as the caller has not
\* cancelled and no rotation (nor truncation) has occurred.  Stated on the
\* states where the tailer waits with nothing left to handle: there, every
\* such line has been emitted (otherwise it is never emitted unless the
\* writer writes again).
C1_AppendedLinesEmitted ==
    (opts.Follow /\ WatchIdle /\ ~hist.rotated /\ ~hist.truncated)
       => \A k \in 1..Len(AppendedEntries) : EmittedFrom(1, AppendedEntries[k].pos)

\* C2: when a write event is handled and the file is now shorter than the
\* recorded offset, the tailer resets the offset to zero before reading: it
\* emits the file's lines from the start and the offset ends at the file's
\* size.
C2_TruncationResetsOffset ==
    [][ ( /\ tpc = "watch" /\ events # <<>> /\ Head(events) = "Write"
          /\ file # NoFile /\ Len(fsFiles[file]) < offset
          /\ WatchEvent )
        => ( /\ output' = output \o ScanEntries(ScanLines(fsFiles[file], 1), file)
             /\ offset' = Len(fsFiles[file]) ) ]_vars

\* C3: once the context is cancelled during follow mode (in the watch loop or
\* while waiting for a rotated file), Run returns nil, whatever is pending.
C3_CancelReturnsNil ==
    (tpc = "done" /\ hist.cancelAt = "follow") => result = "nil"

\* C11: the entries of one file are emitted in strictly increasing
\* byte position, through the initial read and every write event, and every
\* entry of the file that replaced a rotated one comes after all entries of
\* the rotated one.
C11_StrictlyIncreasingPositions ==
    \A i, j \in 1..Len(output) :
        i < j => \/ output[i].inode < output[j].inode
                 \/ output[i].inode = output[j].inode /\ output[i].pos < output[j].pos

\* readInitialLines is over
InitialReadDone == tpc \notin {"open", "open_stat", "init_stat", "init_scan", "init_read"}

\* where a line was read from and its text
Located(entries) == [k \in 1..Len(entries) |-> [Raw |-> entries[k].Raw, pos |-> entries[k].pos]]

\* C12: on a file nobody touches during startup, the tailer with initial-line
\* count N emits exactly the last min(N, M) of the M non-blank lines that pass
\* the filters, in file order; with N = 0 that is nothing, and without follow
\* Run then returns nil.
C12_LastNFilteredEntries ==
    (hist.ops = 0 /\ InitialReadDone)
       => /\ Located(output)
               = Located(LastN(ScanEntries(ScanLines(fsFiles[1], 1), 1), opts.Lines))
          /\ (tpc = "done" => result = "nil")

\* the line of inode f, as it is now, that starts at byte position p
LineAt(f, p) ==
    LET data == fsFiles[f]
        j    == NextLF(data, p + 1)
    IN dropCR(SubSeq(data, p + 1, IF j = 0 THEN Len(data) ELSE j - 1))

IsLineStart(f, p) == p = 0 \/ (p <= Len(fsFiles[f]) /\ fsFiles[f][p] = LF)

\* C13: every emitted entry is one complete line of its file: it starts
\* where a line starts and its raw text is that whole line, also when the
\* line's newline was written later than its first bytes or when the file
\* was truncated and rewritten.  (Entries of a content that has since been
\* truncated away cannot be compared any more.)
C13_NoFragments ==
    \A i \in 1..Len(output) :
        output[i].gen = hist.gen[output[i].inode]
           => /\ IsLineStart(output[i].inode, output[i].pos)
              /\ output[i].Raw = LineAt(output[i].inode, output[i].pos)

\* C26: during one Run no line of a file is emitted more than once, also
\* when a second rename/remove event arrives after the tailer has reopened
\* the rotated path and emitted lines of the file it found there.
C26_NoLineEmittedTwice ==
    \A i, j \in 1..Len(output) :
        i < j => ~(/\ output[i].inode = output[j].inode
                   /\ output[i].gen = output[j].gen
                   /\ output[i].pos = output[j].pos)

\* C27: whenever Run has returned, whatever the reason, the file handle and
\* the watcher it opened are closed.
C27_ClosedOnReturn ==
    (tpc = "done") => (file = NoFile /\ watched = {})

----------------------------------------------------------------------------
(* Claims about the Drain extractor.                                       *)

\* C4: without an intervening Reset, the template ID a message got on its
\* first occurrence is the ID every later Extract of the same token list
\* returns, whatever was extracted in between.
C4_StableTemplateID ==
    (dhist.last.id # 0) => dhist.last.id = dhist.first[dhist.last.msg]

\* C14: over any sequence of Extract and Reset calls on one extractor, the
\* identifiers given to new templates are strictly increasing, so that no
\* identifier is given to two templates, also not across a Reset.
C14_IDsNeverReused ==
    \A i, j \in 1..Len(dhist.assigned) :
        i < j => dhist.assigned[i] < dhist.assigned[j]

\* C15: no node of the parse tree has more than maxChildren children, and a
\* message with tokens always gets a template (a message whose token finds
\* the node full goes to the node's "<*>" child).
C15_FanOutCapped ==
    /\ \A path \in DOMAIN root : Cardinality(Children(root, path)) <= MaxChildren
    /\ (dhist.last.msg # <<>>) => dhist.last.id \in 1..Len(templates)

\* template n after a step, compared with template n before it
GrewOnly(old, new) ==
    /\ new.Count >= old.Count
    /\ Len(new.Tokens) = Len(old.Tokens)
    /\ \A i \in 1..Len(old.Tokens) : new.Tokens[i] \in {old.Tokens[i], Wild}

\* C16: between Resets no call removes a template, lowers a template's count,
\* changes the length of its token list or turns a "<*>" (or any position)
\* into another concrete token, and a call adds at most one template, the
\* one it returns: templates are neither deleted nor split.
C16_AppendOnlyTemplates ==
    [][ (dhist'.resets = dhist.resets)
         => /\ Len(templates') \in {Len(templates), Len(templates) + 1}
            /\ \A n \in 1..Len(templates) : GrewOnly(templates[n], templates'[n])
            /\ (Len(templates') > Len(templates)) => dhist'.last.id = Len(templates')
      ]_vars

\* a template that has absorbed a second, different message: one position
\* has become "<*>", next to another template
C16_Witness ==
    /\ Len(templates) >= 2
    /\ \E n \in 1..Len(templates) :
          /\ templates[n].Count >= 2
          /\ \E i \in 1..Len(templates[n].Tokens) :
                /\ templates[n].Tokens[i] = Wild
                /\ templates[n].Examples[1][i] # Wild
                /\ ~isVariableToken(templates[n].Examples[1][i])

\* the templateIDs of the leaf that findOrCreateTemplate reaches for tokens
LeafTemplateIDs(tree, tokens) ==
    LET lenKey == << Len(tokens) >>
        tree1  == IF lenKey \in DOMAIN tree THEN tree ELSE AddNode(tree, lenKey)
        d      == Descend(tree1, lenKey, tokens, 1)
    IN d.tree[d.path]

\* calculateSimilarity(tokens, t1) <= calculateSimilarity(tokens, t2), the
\* quotients matches/maxLen compared without division
SimilarityLeq(tokens, t1, t2) ==
    Matches(tokens, t1) * Max(Len(tokens), Len(t2))
       <= Matches(tokens, t2) * Max(Len(tokens), Len(t1))

\* C23: an Extract that merges its message into an existing template merges
\* it into a template whose similarity to the message is the maximum over
\* all templates of the message's leaf.
C23_MergedIntoBestMatch ==
    [][ (/\ dhist'.calls = dhist.calls + 1
         /\ dhist'.last.id # 0
         /\ Len(templates') = Len(templates))
         => LET tokens == dhist'.last.msg
                ids    == LeafTemplateIDs(root, tokens)
            IN \A k \in 1..Len(ids) :
                  SimilarityLeq(tokens, templates[ids[k]].Tokens,
                                templates[dhist'.last.id].Tokens)
      ]_vars

\* C28: with goroutines calling Extract, ExtractWithTemplate and Reset on
\* one extractor, an ExtractWithTemplate call on a non-empty message returns
\* the pattern of the template its own Extract assigned the message to:
\* never the empty pattern, and never the pattern of a template made after
\* a later Reset under the same identifier.
C28_ReturnsOwnTemplate ==
    \A g \in DrainGoroutines :
        (dgo[g].pc = "returned" /\ dgo[g].msg # <<>>)
           => /\ dgo[g].pattern # <<>>
              /\ dgo[g].readEpoch = dgo[g].epoch

\* C28, the second half alone: the pattern returned is not that of a
\* template created after a Reset that followed the call's Extract
C28_NoForeignPattern ==
    \A g \in DrainGoroutines :
        (dgo[g].pc = "returned" /\ dgo[g].msg # <<>> /\ dgo[g].pattern # <<>>)
           => dgo[g].readEpoch = dgo[g].epoch

----------------------------------------------------------------------------
(* Claims about the redactor.                                              *)

\* C5, as stated: between Resets, two substrings matched by the same pattern
\* get equal placeholders if and only if they are byte-equal.
C5_PlaceholderEqualIffValueEqual ==
    \A x \in rhist.subs : \A y \in rhist.subs :
        (x.pattern = y.pattern) => ((x.placeholder = y.placeholder) <=> (x.value = y.value))

\* C5, amended: between Resets, byte-equal substrings matched by the same
\* pattern always get the same placeholder, and two substrings matched by the
\* same pattern get the same placeholder only if the first two bytes of their
\* SHA-256 hashes are equal.
C5_EqualValuesSharePlaceholder ==
    \A x \in rhist.subs : \A y \in rhist.subs :
        (x.pattern = y.pattern) =>
            /\ (x.value = y.value) => (x.placeholder = y.placeholder)
            /\ (x.placeholder = y.placeholder) => (hashValue(x.value) = hashValue(y.value))

\* C5 witness: two distinct values matched by the same pattern were redacted
\* since the last Reset and share their placeholder, and a third one does not
C5_Witness ==
    \E x \in rhist.subs : \E y \in rhist.subs : \E z \in rhist.subs :
        /\ x.pattern = y.pattern /\ x.value # y.value /\ x.placeholder = y.placeholder
        /\ z.pattern = x.pattern /\ z.placeholder # x.placeholder

\* C25: whatever Redact and Reset calls came before or run at the same time
\* on the redactor, every substitution a Redact call makes puts
\* "[TYPE:hex]" for the matched substring, TYPE the tag of the pattern that
\* matched it in this call and hex the first four hex characters of the
\* substring's SHA-256: what a redactor without the table computes.
C25_TableIsPureCache ==
    \A g \in RedactGoroutines : \A x \in rgo[g].subs :
        x.placeholder = "[" \o PatternType[x.pattern] \o ":" \o hashValue(x.value) \o "]"

\* C25 witness: a goroutine has taken a value's placeholder from the table
\* while another goroutine, which missed the same value earlier, is about
\* to store it again
C25_Witness ==
    \E g \in RedactGoroutines : \E h \in RedactGoroutines \ {g} :
        \E x \in rgo[g].subs :
            /\ x.cached
            /\ rgo[h].pc = "store"
            /\ rgo[h].text[rgo[h].i] = x.value

----------------------------------------------------------------------------
(* Claims about the compressor and the preprocessor.                       *)

\* the severity order of templatePriorityScore's comment: FATAL=5, ERROR=4,
\* WARN=3, INFO=2, DEBUG=1, UNKNOWN=0
Severity(level) == IF level = LevelUnknown THEN 0 ELSE level + 1

\* an error template: the highest severity among the entries that match it
\* is Error or Fatal. The Level field cannot tell (every summary that
\* createTemplateSummaries makes has Level Unknown), the entries' levels do.
IsErrorTemplate(t) == \E l \in t.hLevels : l \in {LevelError, LevelFatal}

\* C6: whatever the entries, the templates and the token limit, the tokenCount
\* of the output of Compress is at most tokenLimit + 200.
C6_TokenCountWithinLimit ==
    chist.done => cout.TokenCount <= cout.TokenLimit + reservedTokens

\* C7: the level of every TemplateSummary Compress produces is the highest
\* severity among the levels of the entries that match the template.
C7_LevelIsHighestSeverity ==
    (chist.done /\ cin.kind = "compress") =>
        \A i \in 1..Len(chist.considered) :
            /\ chist.considered[i].Level \in chist.considered[i].hLevels
            /\ \A l \in chist.considered[i].hLevels :
                  Severity(l) <= Severity(chist.considered[i].Level)

\* C8: when at least one error template (Error or Fatal) among the summaries
\* of Compress has a rendered size that by itself does not exceed
\* tokenLimit - 200, the summary contains at least one error template, in
\* whichever section.
C8_FittingErrorTemplateIncluded ==
    (chist.done /\ cin.kind = "compress") =>
        ( (\E i \in 1..Len(chist.considered) :
              /\ IsErrorTemplate(chist.considered[i])
              /\ estimateTokens(formatTemplate(chist.considered[i]))
                    <= cout.TokenLimit - reservedTokens)
          => \E j \in 1..Len(cout.Templates) : IsErrorTemplate(cout.Templates[j]) )

\* C9: two freshly constructed preprocessors given the same entries and the
\* same configuration return the same summary text and the same included
\* templates in the same order.
C9_ProcessDeterministic ==
    (Len(pruns) = MaxRuns) =>
        /\ pruns[1].Summary = pruns[2].Summary
        /\ pruns[1].Templates = pruns[2].Templates

\* strings.Contains(text, sub)
Contains(text, sub) ==
    \E i \in 1..(Len(text) - Len(sub) + 1) : SubSeq(text, i, i + Len(sub) - 1) = sub

\* strings.HasSuffix(text, suffix)
HasSuffix(text, suffix) ==
    /\ Len(text) >= Len(suffix)
    /\ SubSeq(text, Len(text) - Len(suffix) + 1, Len(text)) = suffix

\* C22: whenever Compress is given an empty template list, whatever the
\* entries are, the summary it returns contains "No log entries to analyze".
C22_EmptyTemplatesSentinel ==
    (chist.done /\ cin.kind = "compress" /\ Len(cin.templates) = 0)
       => Contains(cout.Summary, "No log entries to analyze")

\* C24: a summary of at least one entry ends with the footer line
\* "Token Count: ~N / LIMIT" in which N is the TokenCount and LIMIT the
\* TokenLimit of the same CompressedOutput.
C24_FooterReportsTokenCount ==
    (chist.done /\ Len(cin.entries) > 0)
       => HasSuffix(cout.Summary,
                    "Token Count: ~" \o ToString(cout.TokenCount) \o " / "
                       \o ToString(cout.TokenLimit) \o "\n")

----------------------------------------------------------------------------
(* Claims about ChatStream.                                                *)

\* the events received so far, without the closure
ReceivedEvents == IF SawClosed THEN SubSeq(received, 1, Len(received) - 1) ELSE received

\* the chunks received are the backend's first chunks, in its order, and no
\* chunk comes after a Done or error event
ReceivedInOrder ==
    LET chunks == {i \in 1..Len(ReceivedEvents) : ReceivedEvents[i].Content # 0}
    IN /\ \A i \in chunks : ReceivedEvents[i].Content = Cardinality({j \in chunks : j <= i})
       /\ \A i \in chunks : \A j \in 1..(i - 1) : ~ReceivedEvents[j].Done

\* a channel is closed only after the backend call has returned, and the
\* adapter's only after the provider's
ClosedAfterCall ==
    /\ chanClosed => stream.callErr # "running"
    /\ CallerChanClosed => chanClosed

\* when the backend call has returned an error and the caller has seen the
\* channel closed, the last event before the closure is an error event
ErrorEventLast ==
    (SawClosed /\ stream.callErr # "nil")
       => /\ Len(ReceivedEvents) >= 1
          /\ ReceivedEvents[Len(ReceivedEvents)].Error # "nil"

\* C21: for a caller that keeps receiving, the events arrive in the order
\* the backend produced them, the producer closes the channel, and only
\* after the backend call has ended, and if the call failed the error event
\* is the last event received before the closure.
C21_OrderedAndErrorLast ==
    /\ [](ReceivedInOrder /\ ClosedAfterCall /\ ErrorEventLast)
    /\ ([](~stopped) => <>CallerChanClosed)

\* C21, the parts other than the error event: order and closure
C21_OrderedAndClosed ==
    /\ [](ReceivedInOrder /\ ClosedAfterCall)
    /\ ([](~stopped) => <>CallerChanClosed)

----------------------------------------------------------------------------
(* Claims about the stream parser.                                         *)

\* the positions of the newlines of the stream
NewlineAt == {p \in 1..Len(psStream) : psStream[p] = LF}

\* the number of physical lines: one per newline, and the bytes after the
\* last newline when there are any
NumLines ==
    Cardinality(NewlineAt)
      + (IF Len(psStream) > 0 /\ psStream[Len(psStream)] # LF THEN 1 ELSE 0)

\* where line k starts, and where it ends (its newline excluded)
LineStart(k) ==
    IF k = 1 THEN 1
    ELSE 1 + CHOOSE p \in NewlineAt : Cardinality({q \in NewlineAt : q <= p}) = k - 1

LineEnd(k) ==
    IF k <= Cardinality(NewlineAt)
    THEN (CHOOSE p \in NewlineAt : Cardinality({q \in NewlineAt : q <= p}) = k) - 1
    ELSE Len(psStream)

LineTerminated(k) == k <= Cardinality(NewlineAt)

LineText(k) == SubSeq(psStream, LineStart(k), LineEnd(k))

WithoutCR(text) ==
    IF Len(text) > 0 /\ text[Len(text)] = CR THEN SubSeq(text, 1, Len(text) - 1) ELSE text

\* line k without its trailing newline, "\n" or "\r\n"
LineWithoutNewline(k) ==
    IF LineTerminated(k) THEN WithoutCR(LineText(k)) ELSE LineText(k)

\* the raw text and the line number of the calls of fn
CallsMade == [i \in 1..Len(psCalls) |-> [Raw |-> psCalls[i].Raw, Line |-> psCalls[i].Line]]

NonBlankLines == SelectSeq([k \in 1..NumLines |-> k], LAMBDA k : ~IsBlank(LineText(k)))

\* C10, as stated: when fn never fails, fn is called exactly once per
\* non-blank line and never for a blank one, in source order, with raw equal
\* to the line without its trailing newline and with the physical line number.
C10_OncePerLineRawVerbatim ==
    (psResult = "nil" /\ psFailAt = 0) =>
        CallsMade = [n \in 1..Len(NonBlankLines) |->
                        [Raw |-> LineWithoutNewline(NonBlankLines[n]),
                         Line |-> NonBlankLines[n]]]

\* the calls ParseStream makes when nothing stops it: one per non-blank line,
\* raw being the line without its newline and without one trailing "\r"
ExpectedCalls ==
    [n \in 1..Len(NonBlankLines) |->
        [Raw |-> WithoutCR(LineText(NonBlankLines[n])), Line |-> NonBlankLines[n]]]

\* C10, amended: ParseStream calls fn once per non-blank line and never for a
\* blank one, in source order, up to and including the first call in which fn
\* returns an error (ParseStream then returns that error, otherwise nil); raw
\* is the line without its newline and without one trailing "\r", also when
\* the last line has no newline; the line number is the physical one.
C10_OncePerLineUntilError ==
    (psResult # "running") =>
        IF psFailAt \in 1..Len(ExpectedCalls)
        THEN /\ psResult = "fn error"
             /\ CallsMade = SubSeq(ExpectedCalls, 1, psFailAt)
        ELSE /\ psResult = "nil"
             /\ CallsMade = ExpectedCalls

\* C10 witness: a parse that returned nil after calling fn for lines 1 and 3,
\* line 2 being blank and line 1 ending in "\r\n"
C10_Witness ==
    /\ psResult = "nil"
    /\ Len(psCalls) = 2
    /\ psCalls[2].Line = 3
    /\ Len(psStream) >= 3 /\ psStream[2] = CR /\ psStream[3] = LF

----------------------------------------------------------------------------
(* Claims about search's context emitter.                                  *)

\* the position in the input of the entry e
Idx(e) == CHOOSE i \in 1..Len(emInput) : emInput[i].Line = e.Line

Dist(a, b) == IF a < b THEN b - a ELSE a - b

\* the positions of the matching entries
MatchPositions == {m \in 1..Len(emInput) : emInput[m].Match}

\* the matches whose context (match position +- N) holds position i
Covering(i) == {m \in MatchPositions : Dist(m, i) <= emitter.context}

\* the entries emitted, without the separators
Emitted ==
    LET isEntry(e) == e # Separator
    IN SelectSeq(emOut, isEntry)

\* the entries within N positions of some match, in source order
WithinContext ==
    LET near(e) == Covering(Idx(e)) # {}
    IN SelectSeq(emInput, near)

EmitterDone == emNext > Len(emInput)

\* C17: with context N > 0, once the input is processed the emitter has
\* emitted exactly the entries within N positions of some match (the matches
\* among them), each once and in source order.
C17_ExactlyContextOnce ==
    (emitter.context > 0 /\ EmitterDone) => Emitted = WithinContext

\* two matches two positions apart with context 1: the entry between them is
\* in the context of both, the last entry in the context of none
C17_Witness ==
    /\ emitter.context = 1 /\ EmitterDone /\ Len(emInput) = MaxEntries
    /\ MatchPositions = {2, 4}
    /\ Len(Emitted) = 5

\* the context ranges that produced the entries at positions i and j share
\* no entry: no match covering i lies within 2N positions of one covering j
DisjointGroups(i, j) ==
    \A m1 \in Covering(i), m2 \in Covering(j) : Dist(m1, m2) > 2 * emitter.context

\* C18: with context N > 0 and a separator configured, the separator stands
\* between two successively emitted entries exactly when their context
\* groups are disjoint; it is never the first or the last thing written and
\* never written twice in a row.
C18_SeparatorIffDisjoint ==
    (emitter.context > 0 /\ emitter.separator /\ EmitterDone /\ emOut # <<>>)
       => /\ emOut[1] # Separator
          /\ emOut[Len(emOut)] # Separator
          /\ \A k \in 1..(Len(emOut) - 1) :
                IF emOut[k] = Separator
                THEN emOut[k + 1] # Separator
                ELSE LET sep  == emOut[k + 1] = Separator
                         next == IF sep THEN emOut[k + 2] ELSE emOut[k + 1]
                     IN sep <=> DisjointGroups(Idx(emOut[k]), Idx(next))

----------------------------------------------------------------------------
(* Claims about the analyzer.                                              *)

\* the timestamps of the entries that have one
Stamps == {anEntries[i].Timestamp : i \in 1..Len(anEntries)} \ {ZeroTime}

\* the timestamped entries that lie in the window w
InWindow(w) ==
    {i \in 1..Len(anEntries) :
        /\ anEntries[i].Timestamp # ZeroTime
        /\ w.Start <= anEntries[i].Timestamp /\ anEntries[i].Timestamp < w.End}

\* C19: for a window W > 0 and entries of which at least one has a
\* timestamp, the windows start at the multiple of W at or just below minT,
\* each is W long and starts where the one before it ends, the last one
\* holds maxT, and each window counts exactly the timestamped entries lying
\* in it, so that every such entry is counted in exactly one window.
C19_WindowsContiguous ==
    (anCall.op = "AnalyzeByWindow" /\ Stamps # {})
       => /\ Len(anResult) >= 1
          /\ anResult[1].Start % anCall.window = 0
          /\ anResult[1].Start <= SetMin(Stamps)
          /\ SetMin(Stamps) < anResult[1].Start + anCall.window
          /\ \A k \in 1..Len(anResult) : anResult[k].End = anResult[k].Start + anCall.window
          /\ \A k \in 1..(Len(anResult) - 1) : anResult[k + 1].Start = anResult[k].End
          /\ anResult[Len(anResult)].Start <= SetMax(Stamps)
          /\ SetMax(Stamps) < anResult[Len(anResult)].End
          /\ \A k \in 1..Len(anResult) : anResult[k].Count = Cardinality(InWindow(anResult[k]))

\* minT is not a multiple of the window, a window in the middle is empty and
\* one entry has no timestamp
C19_Witness ==
    /\ anCall.op = "AnalyzeByWindow" /\ anCall.window = 2
    /\ Len(anResult) = 3
    /\ anResult[1].Start < SetMin(Stamps)
    /\ anResult[2].Count = 0
    /\ \E i \in 1..Len(anEntries) : anEntries[i].Timestamp = ZeroTime

\* the sum of the windows' error counts, from the k-th window
RECURSIVE SumErrorCounts(_, _)
SumErrorCounts(windows, k) ==
    IF k > Len(windows) THEN 0
    ELSE windows[k].ErrorCount + SumErrorCounts(windows, k + 1)

\* C29: the error count of every window is the number of its entries whose
\* level is Error or Fatal (an entry of level Unknown is not an error), and
\* when every entry has a timestamp the windows' error counts add up to the
\* errorCount + fatalCount from which ComputeStats takes the error rate.
C29_WindowErrorsAreErrorOrFatal ==
    (anCall.op = "AnalyzeByWindow")
       => /\ \A k \in 1..Len(anResult) :
                anResult[k].ErrorCount
                   = Cardinality({i \in InWindow(anResult[k]) :
                                     anEntries[i].Level \in {LevelError, LevelFatal}})
          /\ (Len(anEntries) > 0 /\ \A i \in 1..Len(anEntries) : anEntries[i].Timestamp # ZeroTime)
                => SumErrorCounts(anResult, 1) = ComputeStats(anEntries).ErrorRate.num

\* C20: GroupBy returns an error for every field other than level, message
\* and source, whatever the entries are, also for no entries at all.
C20_UnknownFieldIsError ==
    (anCall.op = "GroupBy" /\ anCall.field \notin {"level", "message", "source"})
       => anResult.err # "nil"

====
